---------------------------- MODULE Spec2Model ----------------------------
(***************************************************************************)
(* Bidirectional human-only BFS over the Wikipedia link graph              *)
(* (src/backend/bfs.py): the search loop, the node processor tasks, the    *)
(* category classifier with its caches, and the request semaphore.         *)
(*                                                                         *)
(* Titles and category names are sequences of one-character strings so     *)
(* that the string tests of the code (prefix, substring, lower-casing,     *)
(* digit classes) are computed, not assumed.                               *)
(***************************************************************************)
EXTENDS Integers, Sequences, FiniteSets, TLC

(***************************************************************************)
(* Search constants, src/backend/bfs.py:49-57.  The model checks the       *)
(* search at a reduced scale; the relations between the constants that the *)
(* code's behaviour depends on are kept:                                   *)
(*   BATCH_SIZE = CONCURRENT_REQUESTS            (20 = 20 in the source)   *)
(*   MAX_DEGREE > 1, MAX_CANDIDATES_TO_CHECK > CATEGORY_BATCH_SIZE         *)
(*   max_connections = CONCURRENT_REQUESTS + POOL_EXTRA < 2 * BATCH_SIZE   *)
(***************************************************************************)
TIMEOUT_SECONDS == 1
MAX_NODES_VISITED == 6
BATCH_SIZE == 2
CATEGORY_BATCH_SIZE == 2
MAX_CANDIDATES_TO_CHECK == 3
MAX_DEGREE == 2
MAX_STEP_COUNT == 3
CONCURRENT_REQUESTS == 2
\* httpx.Limits(max_connections = CONCURRENT_REQUESTS + 10), bfs.py:320-323
POOL_EXTRA == 1
max_connections == CONCURRENT_REQUESTS + POOL_EXTRA

\* The clock is observed up to MaxNow ticks; past TIMEOUT_SECONDS all values
\* behave alike.
MaxNow == 2

\* Python's None, as a value comparable with titles and distinct from all.
None == << "<None>" >>

-----------------------------------------------------------------------------
(* Strings *)

Digits == {"0","1","2","3","4","5","6","7","8","9"}

\* str.isdigit on one character (ASCII alphabet)
IsDigit(c) == c \in Digits

\* str.lower on one character
LowerChar(c) ==
    CASE c = "A" -> "a" [] c = "B" -> "b" [] c = "C" -> "c" [] c = "D" -> "d"
      [] c = "E" -> "e" [] c = "F" -> "f" [] c = "G" -> "g" [] c = "H" -> "h"
      [] c = "I" -> "i" [] c = "J" -> "j" [] c = "K" -> "k" [] c = "L" -> "l"
      [] c = "M" -> "m" [] c = "N" -> "n" [] c = "O" -> "o" [] c = "P" -> "p"
      [] c = "Q" -> "q" [] c = "R" -> "r" [] c = "S" -> "s" [] c = "T" -> "t"
      [] c = "U" -> "u" [] c = "V" -> "v" [] c = "W" -> "w" [] c = "X" -> "x"
      [] c = "Y" -> "y" [] c = "Z" -> "z" [] OTHER -> c

\* str.lower
Lower(s) == [i \in 1..Len(s) |-> LowerChar(s[i])]

\* str.startswith
StartsWith(s, p) == Len(s) >= Len(p) /\ SubSeq(s, 1, Len(p)) = p

\* the substring test  p in s
Contains(s, p) ==
    \E i \in 1..(Len(s) - Len(p) + 1) : SubSeq(s, i, i + Len(p) - 1) = p

\* any(p in s for p in patterns)
ContainsAny(s, patterns) ==
    \E k \in 1..Len(patterns) : Contains(s, patterns[k])

\* list[:n]
Take(s, n) == SubSeq(s, 1, IF Len(s) < n THEN Len(s) ELSE n)

\* list[n:]
Drop(s, n) == SubSeq(s, n + 1, Len(s))

\* the elements of a list
Range(s) == {s[i] : i \in 1..Len(s)}

\* the orders random.shuffle can leave a list in
Shuffles(s) ==
    {[i \in 1..Len(s) |-> s[p[i]]] : p \in Permutations(1..Len(s))}

Min(a, b) == IF a < b THEN a ELSE b

\* The module-level generator of random.  Nothing in the program seeds it,
\* so it starts from the system's entropy and random.shuffle can leave a
\* list in any order; a caller that has called random.seed has fixed the
\* stream of draws, and what a shuffle does is decided by the draws that
\* were taken before it.
MaxSeed == 2

Unseeded == [seeded |-> FALSE, seed |-> 0, drawn |-> 0]
Seeded(seed) == [seeded |-> TRUE, seed |-> seed, drawn |-> 0]

\* draw number p of the stream of a seed
Draw(seed, p) == ((seed + 1) * (2 * p + 3)) % 5

Swap(x, i, j) == [x EXCEPT ![i] = x[j], ![j] = x[i]]

\* random.shuffle on a seeded stream:
\*   for i in reversed(range(1, len(x))): j = randbelow(i + 1); swap x[i], x[j]
\* with the positions counted from 1 here
RECURSIVE SeededShuffle(_, _, _, _)
SeededShuffle(x, i, seed, p) ==
    IF i <= 1 THEN x
    ELSE LET j == (Draw(seed, p) % i) + 1
         IN  SeededShuffle(Swap(x, i, j), i - 1, seed, p + 1)

\* the orders the next random.shuffle can leave list s in
ShuffleResults(s, rnd) ==
    IF rnd.seeded THEN { SeededShuffle(s, Len(s), rnd.seed, rnd.drawn) }
    ELSE Shuffles(s)

\* the generator after a shuffle of a list of n elements
AfterShuffle(rnd, n) ==
    IF rnd.seeded /\ n > 1 THEN [rnd EXCEPT !.drawn = @ + (n - 1)] ELSE rnd

-----------------------------------------------------------------------------
(* Keyword tables *)

\* src/backend/bfs.py:69-83
PERSON_POSITIVE_KEYWORDS ==
    << <<"l","i","v","i","n","g"," ","p","e","o","p","l","e">>,
       <<"p","e","o","p","l","e"," ","f","r","o","m">>, <<"a","l","u","m","n","i">>,
       <<"p","l","a","y","e","r","s">>, <<"a","c","t","o","r","s">>, <<"a","c","t","r","e","s","s","e","s">>,
       <<"p","o","l","i","t","i","c","i","a","n","s">>, <<"s","i","n","g","e","r","s">>,
       <<"m","u","s","i","c","i","a","n","s">>, <<"w","r","i","t","e","r","s">>,
       <<"d","i","r","e","c","t","o","r","s">>, <<"s","c","i","e","n","t","i","s","t","s">>,
       <<"b","u","s","i","n","e","s","s","p","e","o","p","l","e">>,
       <<"e","n","t","r","e","p","r","e","n","e","u","r","s">>, <<"a","t","h","l","e","t","e","s">>,
       <<"j","o","u","r","n","a","l","i","s","t","s">>, <<"a","c","t","i","v","i","s","t","s">>,
       <<"e","m","p","e","r","o","r","s">>, <<"m","o","n","a","r","c","h","s">>, <<"k","h","a","n","s">>,
       <<"s","u","l","t","a","n","s">>, <<"p","h","a","r","a","o","h","s">>, <<"t","s","a","r","s">>,
       <<"c","z","a","r","s">>, <<"k","i","n","g","s">>, <<"q","u","e","e","n","s">>,
       <<"p","r","i","n","c","e","s">>, <<"p","r","i","n","c","e","s","s","e","s">>, <<"d","u","k","e","s">>,
       <<"c","o","u","n","t","s">>, <<"b","a","r","o","n","s">>, <<"g","e","n","e","r","a","l","s">>,
       <<"c","o","m","m","a","n","d","e","r","s">>, <<"a","d","m","i","r","a","l","s">>,
       <<"m","a","r","s","h","a","l","s">>, <<"w","a","r","l","o","r","d","s">>,
       <<"c","o","n","q","u","e","r","o","r","s">>, <<"r","u","l","e","r","s">>,
       <<"r","e","g","e","n","t","s">>, <<"c","a","l","i","p","h","s">>, <<"p","o","p","e","s">>,
       <<"p","a","t","r","i","a","r","c","h","s">>, <<"p","h","i","l","o","s","o","p","h","e","r","s">>,
       <<"t","h","e","o","l","o","g","i","a","n","s">>, <<"h","i","s","t","o","r","i","a","n","s">>,
       <<"m","a","t","h","e","m","a","t","i","c","i","a","n","s">>, <<"i","n","v","e","n","t","o","r","s">> >>

\* src/backend/bfs.py:86-100
PERSON_NEGATIVE_KEYWORDS ==
    << <<"a","n","i","m","a","l">>, <<"h","o","r","s","e">>, <<"r","a","c","e","h","o","r","s","e">>,
       <<"d","o","g">>, <<"c","a","t"," ","b","r","e","e","d">>, <<"s","p","e","c","i","e","s">>,
       <<"f","i","c","t","i","o","n","a","l">>, <<"c","h","a","r","a","c","t","e","r">>,
       <<"m","y","t","h","o","l","o","g","y">>, <<"m","y","t","h","o","l","o","g","i","c","a","l">>,
       <<"b","a","n","d">>, <<"m","u","s","i","c","a","l"," ","g","r","o","u","p">>,
       <<"c","o","m","p","a","n","y">>, <<"o","r","g","a","n","i","z","a","t","i","o","n">>,
       <<"c","o","r","p","o","r","a","t","i","o","n">>, <<"f","i","l","m">>, <<"m","o","v","i","e">>,
       <<"s","o","n","g">>, <<"a","l","b","u","m">>, <<"b","o","o","k">>, <<"n","o","v","e","l">>,
       <<"g","a","m","e">>, <<"p","l","a","c","e">>, <<"c","i","t","y">>, <<"c","o","u","n","t","r","y">>,
       <<"r","i","v","e","r">>, <<"m","o","u","n","t","a","i","n">>, <<"b","u","i","l","d","i","n","g">>,
       <<"e","v","e","n","t">>, <<"b","a","t","t","l","e">>, <<"w","a","r">>, <<"t","r","e","a","t","y">>,
       <<"c","o","n","f","e","r","e","n","c","e">>, <<"d","y","n","a","s","t","y">>,
       <<"e","m","p","i","r","e">>, <<"k","i","n","g","d","o","m">> >>

\* src/backend/bfs.py:103-103
PERSON_EXCEPTION_KEYWORDS ==
    << <<"a","c","t","i","v","i","s","t">>, <<"t","r","a","i","n","e","r">>, <<"o","w","n","e","r">>,
       <<"b","r","e","e","d","e","r">>, <<"r","i","d","e","r">> >>

\* src/backend/bfs.py:106-111
META_PAGE_PATTERNS ==
    << <<"l","i","s","t"," ","o","f">>, <<"c","a","t","e","g","o","r","y",":">>,
       <<"t","e","m","p","l","a","t","e",":">>, <<"p","o","r","t","a","l",":">>, <<"h","e","l","p",":">>,
       <<"w","i","k","i","p","e","d","i","a",":">>, <<"f","i","l","e",":">>, <<"u","s","e","r",":">>,
       <<"t","a","l","k",":">>, <<"s","p","e","c","i","a","l",":">>,
       <<"m","e","d","i","a","w","i","k","i",":">>, <<"d","r","a","f","t",":">>,
       <<"t","i","m","e","d","t","e","x","t",":">>, <<"m","o","d","u","l","e",":">>,
       <<"d","i","s","a","m","b","i","g","u","a","t","i","o","n">>,
       <<"t","i","m","e","l","i","n","e"," ","o","f">>, <<"h","i","s","t","o","r","y"," ","o","f">>,
       <<"g","e","o","g","r","a","p","h","y"," ","o","f">>, <<"c","u","l","t","u","r","e"," ","o","f">>,
       <<"e","c","o","n","o","m","y"," ","o","f">>, <<"p","o","l","i","t","i","c","s"," ","o","f">>,
       <<"g","o","v","e","r","n","m","e","n","t"," ","o","f">>,
       <<"m","i","l","i","t","a","r","y"," ","o","f">> >>

\* src/backend/bfs.py:119-159
VIP_ALLOWLIST_titles ==
    << <<"D","o","n","a","l","d"," ","T","r","u","m","p">>, <<"J","o","e"," ","B","i","d","e","n">>,
       <<"B","a","r","a","c","k"," ","O","b","a","m","a">>,
       <<"G","e","o","r","g","e"," ","W","."," ","B","u","s","h">>,
       <<"B","i","l","l"," ","C","l","i","n","t","o","n">>,
       <<"H","i","l","l","a","r","y"," ","C","l","i","n","t","o","n">>,
       <<"V","l","a","d","i","m","i","r"," ","P","u","t","i","n">>,
       <<"X","i"," ","J","i","n","p","i","n","g">>, <<"A","n","g","e","l","a"," ","M","e","r","k","e","l">>,
       <<"E","m","m","a","n","u","e","l"," ","M","a","c","r","o","n">>,
       <<"B","o","r","i","s"," ","J","o","h","n","s","o","n">>,
       <<"N","a","r","e","n","d","r","a"," ","M","o","d","i">>, <<"S","h","i","n","z","o"," ","A","b","e">>,
       <<"J","u","s","t","i","n"," ","T","r","u","d","e","a","u">>,
       <<"B","e","n","j","a","m","i","n"," ","N","e","t","a","n","y","a","h","u">>,
       <<"G","e","n","g","h","i","s"," ","K","h","a","n">>, <<"K","u","b","l","a","i"," ","K","h","a","n">>,
       <<"A","l","e","x","a","n","d","e","r"," ","t","h","e"," ","G","r","e","a","t">>,
       <<"J","u","l","i","u","s"," ","C","a","e","s","a","r">>, <<"A","u","g","u","s","t","u","s">>,
       <<"N","a","p","o","l","e","o","n"," ","B","o","n","a","p","a","r","t","e">>,
       <<"A","d","o","l","f"," ","H","i","t","l","e","r">>,
       <<"J","o","s","e","p","h"," ","S","t","a","l","i","n">>,
       <<"W","i","n","s","t","o","n"," ","C","h","u","r","c","h","i","l","l">>,
       <<"F","r","a","n","k","l","i","n"," ","D","."," ","R","o","o","s","e","v","e","l","t">>,
       <<"Q","u","e","e","n"," ","V","i","c","t","o","r","i","a">>,
       <<"Q","u","e","e","n"," ","E","l","i","z","a","b","e","t","h"," ","I","I">>,
       <<"K","i","n","g"," ","C","h","a","r","l","e","s"," ","I","I","I">>,
       <<"H","e","n","r","y"," ","V","I","I","I"," ","o","f"," ","E","n","g","l","a","n","d">>,
       <<"L","o","u","i","s"," ","X","I","V">>,
       <<"P","e","t","e","r"," ","t","h","e"," ","G","r","e","a","t">>,
       <<"C","a","t","h","e","r","i","n","e"," ","t","h","e"," ","G","r","e","a","t">>,
       <<"C","l","e","o","p","a","t","r","a">>, <<"R","a","m","e","s","s","e","s"," ","I","I">>,
       <<"G","e","o","r","g","e"," ","W","a","s","h","i","n","g","t","o","n">>,
       <<"A","b","r","a","h","a","m"," ","L","i","n","c","o","l","n">>,
       <<"T","h","o","m","a","s"," ","J","e","f","f","e","r","s","o","n">>,
       <<"M","a","h","a","t","m","a"," ","G","a","n","d","h","i">>,
       <<"N","e","l","s","o","n"," ","M","a","n","d","e","l","a">>,
       <<"M","a","r","t","i","n"," ","L","u","t","h","e","r"," ","K","i","n","g"," ","J","r",".">>,
       <<"C","h","e"," ","G","u","e","v","a","r","a">>, <<"H","o"," ","C","h","i"," ","M","i","n","h">>,
       <<"M","a","o"," ","Z","e","d","o","n","g">>,
       <<"V","l","a","d","i","m","i","r"," ","L","e","n","i","n">>, <<"K","a","r","l"," ","M","a","r","x">>,
       <<"F","r","i","e","d","r","i","c","h"," ","E","n","g","e","l","s">>,
       <<"E","l","o","n"," ","M","u","s","k">>, <<"J","e","f","f"," ","B","e","z","o","s">>,
       <<"B","i","l","l"," ","G","a","t","e","s">>, <<"S","t","e","v","e"," ","J","o","b","s">>,
       <<"M","a","r","k"," ","Z","u","c","k","e","r","b","e","r","g">>,
       <<"W","a","r","r","e","n"," ","B","u","f","f","e","t","t">>,
       <<"L","a","r","r","y"," ","P","a","g","e">>, <<"S","e","r","g","e","y"," ","B","r","i","n">>,
       <<"T","i","m"," ","C","o","o","k">>, <<"S","a","t","y","a"," ","N","a","d","e","l","l","a">>,
       <<"J","a","c","k"," ","M","a">>, <<"R","i","c","h","a","r","d"," ","B","r","a","n","s","o","n">>,
       <<"O","p","r","a","h"," ","W","i","n","f","r","e","y">>,
       <<"A","l","b","e","r","t"," ","E","i","n","s","t","e","i","n">>,
       <<"I","s","a","a","c"," ","N","e","w","t","o","n">>,
       <<"S","t","e","p","h","e","n"," ","H","a","w","k","i","n","g">>,
       <<"N","i","k","o","l","a"," ","T","e","s","l","a">>,
       <<"T","h","o","m","a","s"," ","E","d","i","s","o","n">>,
       <<"M","a","r","i","e"," ","C","u","r","i","e">>,
       <<"C","h","a","r","l","e","s"," ","D","a","r","w","i","n">>,
       <<"G","a","l","i","l","e","o"," ","G","a","l","i","l","e","i">>,
       <<"L","e","o","n","a","r","d","o"," ","d","a"," ","V","i","n","c","i">>,
       <<"A","r","i","s","t","o","t","l","e">>, <<"P","l","a","t","o">>, <<"S","o","c","r","a","t","e","s">>,
       <<"A","r","c","h","i","m","e","d","e","s">>, <<"A","l","a","n"," ","T","u","r","i","n","g">>,
       <<"R","i","c","h","a","r","d"," ","F","e","y","n","m","a","n">>,
       <<"M","i","c","h","a","e","l"," ","J","a","c","k","s","o","n">>,
       <<"E","l","v","i","s"," ","P","r","e","s","l","e","y">>,
       <<"T","h","e"," ","B","e","a","t","l","e","s">>, <<"M","a","d","o","n","n","a">>,
       <<"T","a","y","l","o","r"," ","S","w","i","f","t">>, <<"B","e","y","o","n","c","é">>,
       <<"L","a","d","y"," ","G","a","g","a">>, <<"K","a","n","y","e"," ","W","e","s","t">>,
       <<"D","r","a","k","e">>, <<"R","i","h","a","n","n","a">>,
       <<"L","e","o","n","a","r","d","o"," ","D","i","C","a","p","r","i","o">>,
       <<"T","o","m"," ","H","a","n","k","s">>, <<"M","e","r","y","l"," ","S","t","r","e","e","p">>,
       <<"B","r","a","d"," ","P","i","t","t">>, <<"A","n","g","e","l","i","n","a"," ","J","o","l","i","e">>,
       <<"J","o","h","n","n","y"," ","D","e","p","p">>, <<"W","i","l","l"," ","S","m","i","t","h">>,
       <<"D","w","a","y","n","e"," ","J","o","h","n","s","o","n">>,
       <<"M","a","r","i","l","y","n"," ","M","o","n","r","o","e">>,
       <<"A","u","d","r","e","y"," ","H","e","p","b","u","r","n">>,
       <<"M","i","c","h","a","e","l"," ","J","o","r","d","a","n">>,
       <<"L","e","B","r","o","n"," ","J","a","m","e","s">>,
       <<"C","r","i","s","t","i","a","n","o"," ","R","o","n","a","l","d","o">>,
       <<"L","i","o","n","e","l"," ","M","e","s","s","i">>,
       <<"S","e","r","e","n","a"," ","W","i","l","l","i","a","m","s">>,
       <<"R","o","g","e","r"," ","F","e","d","e","r","e","r">>,
       <<"M","u","h","a","m","m","a","d"," ","A","l","i">>, <<"M","i","k","e"," ","T","y","s","o","n">>,
       <<"U","s","a","i","n"," ","B","o","l","t">>, <<"T","i","g","e","r"," ","W","o","o","d","s">>,
       <<"J","e","s","u","s">>, <<"M","u","h","a","m","m","a","d">>, <<"B","u","d","d","h","a">>,
       <<"P","o","p","e"," ","F","r","a","n","c","i","s">>, <<"D","a","l","a","i"," ","L","a","m","a">>,
       <<"C","o","n","f","u","c","i","u","s">>, <<"M","o","s","e","s">>,
       <<"S","a","i","n","t"," ","P","a","u","l">>, <<"M","a","r","t","i","n"," ","L","u","t","h","e","r">> >>

\* VIP_ALLOWLIST is a Python set
VIP_ALLOWLIST == Range(VIP_ALLOWLIST_titles)

-----------------------------------------------------------------------------
(* Heuristic filter and category decision rule *)

ListOfPrefix == <<"L","i","s","t"," ","o","f">>
CategoryPrefix == <<"c","a","t","e","g","o","r","y",":">>
AnimalWord == <<"a","n","i","m","a","l">>
BirthsSuffix == <<" ","b","i","r","t","h","s">>
DeathsSuffix == <<" ","d","e","a","t","h","s">>
CenturySuffix == <<"-","c","e","n","t","u","r","y">>
OrdinalSuffixes == {<<"s","t">>, <<"n","d">>, <<"r","d">>, <<"t","h">>}
CenturyRoles == << <<"r","u","l","e","r","s">>, <<"p","e","o","p","l","e">>, <<"m","o","n","a","r","c","h","s">>, <<"l","e","a","d","e","r","s">>, <<"g","e","n","e","r","a","l","s">> >>


\* a loop body that rejects category pages only
HeuristicKeeps_metaOnly(candidate) ==
    ~ContainsAny(Lower(candidate), <<CategoryPrefix>>)

\* the body of the loop of _heuristic_filter: TRUE when the candidate is
\* appended to filtered
HeuristicKeeps(candidate) ==
    /\ ~(candidate # <<>> /\ IsDigit(candidate[1]))
    /\ ~StartsWith(candidate, ListOfPrefix)
    /\ ~ContainsAny(Lower(candidate), META_PAGE_PATTERNS)

RECURSIVE _heuristic_filter(_)
_heuristic_filter(candidates) ==
    IF candidates = <<>> THEN <<>>
    ELSE IF HeuristicKeeps(candidates[1])
         THEN <<candidates[1]>> \o _heuristic_filter(Tail(candidates))
         ELSE _heuristic_filter(Tail(candidates))

\* re.search(r'\d{4} births', cat)  (word = " births" or " deaths")
YearPattern(cat, word) ==
    \E i \in 1..Len(cat) :
        /\ i + 3 + Len(word) <= Len(cat)
        /\ \A k \in 0..3 : IsDigit(cat[i + k])
        /\ SubSeq(cat, i + 4, i + 3 + Len(word)) = word

\* re.search(r'\d{1,2}(st|nd|rd|th)-century', cat)
CenturyPattern(cat) ==
    \E i \in 1..Len(cat) : \E d \in 1..2 :
        /\ i + d + 1 + Len(CenturySuffix) <= Len(cat)
        /\ \A k \in 0..(d - 1) : IsDigit(cat[i + k])
        /\ SubSeq(cat, i + d, i + d + 1) \in OrdinalSuffixes
        /\ SubSeq(cat, i + d + 2, i + d + 1 + Len(CenturySuffix)) = CenturySuffix

\* Stage 1 of _is_human on one clean category
NegativeHit(cat) ==
    /\ ContainsAny(cat, PERSON_NEGATIVE_KEYWORDS)
    /\ ~ContainsAny(cat, PERSON_EXCEPTION_KEYWORDS)

\* Stage 2 of _is_human on one raw category
PositiveHit(cat) ==
    \/ ContainsAny(cat, PERSON_POSITIVE_KEYWORDS)
    \/ YearPattern(cat, BirthsSuffix) /\ ~Contains(cat, AnimalWord)
    \/ YearPattern(cat, DeathsSuffix) /\ ~Contains(cat, AnimalWord)
    \/ CenturyPattern(cat) /\ ContainsAny(cat, CenturyRoles)

_is_human(categories, clean_categories) ==
    IF \E k \in 1..Len(clean_categories) : NegativeHit(clean_categories[k])
    THEN FALSE
    ELSE \E k \in 1..Len(categories) : PositiveHit(categories[k])

\* categories / clean_cats as check_batch builds them from a page
PageCategories(page) == [k \in 1..Len(page.categories) |-> Lower(page.categories[k])]
CleanCategory(c) == IF StartsWith(c, CategoryPrefix) THEN Drop(c, 9) ELSE c
PageCleanCategories(page) ==
    [k \in 1..Len(page.categories) |-> CleanCategory(PageCategories(page)[k])]
PageIsHuman(page) == _is_human(PageCategories(page), PageCleanCategories(page))

-----------------------------------------------------------------------------
(* The Wikipedia API as the search sees it: the article graph and the      *)
(* pages the category query can answer with.                               *)

Ann == <<"A","n","n">>
Bob == <<"B","o","b">>
Cy == <<"C","y">>
Dee == <<"D","e","e">>
Eve == <<"E","v","e">>
Gus == <<"G","u","s">>
Hal == <<"H","a","l">>
Harold == <<"H","a","r","o","l","d">>
Kurt == <<"K","u","r","t">>
Rex == <<"R","e","x">>
Plato == <<"P","l","a","t","o">>
ListOfB == <<"L","i","s","t"," ","o","f"," ","B">>
FiftyCent == <<"5","0"," ","C","e","n","t">>
Y1984 == <<"1","9","8","4">>
Ida == <<"I","d","a">>
Jo == <<"J","o">>
Max == <<"M","a","x">>
Zed == <<"Z","e","d">>
JackMa == <<"J","a","c","k"," ","M","a">>
TaylorSwift == <<"T","a","y","l","o","r"," ","S","w","i","f","t">>
HenryKissinger == <<"H","e","n","r","y"," ","K","i","s","s","i","n","g","e","r">>
Album1989 == <<"1","9","8","9"," ","(","T","a","y","l","o","r"," ","S","w","i","f","t"," ","a","l","b","u","m",")">>
HoChiMinhCity == <<"H","o"," ","C","h","i"," ","M","i","n","h"," ","C","i","t","y">>
VietnamWar == <<"V","i","e","t","n","a","m"," ","W","a","r">>
Liz == <<"L","i","z">>
Finn == <<"F","i","n","n">>
Mo == <<"M","o">>
UpFilm == <<"U","p"," ","(","f","i","l","m",")">>
BillGates == <<"B","i","l","l"," ","G","a","t","e","s">>
SteveJobs == <<"S","t","e","v","e"," ","J","o","b","s">>
ElonMusk == <<"E","l","o","n"," ","M","u","s","k">>
JeffBezos == <<"J","e","f","f"," ","B","e","z","o","s">>
LarryPage == <<"L","a","r","r","y"," ","P","a","g","e">>
SergeyBrin == <<"S","e","r","g","e","y"," ","B","r","i","n">>
MarkZuckerberg == <<"M","a","r","k"," ","Z","u","c","k","e","r","b","e","r","g">>
WarrenBuffett == <<"W","a","r","r","e","n"," ","B","u","f","f","e","t","t">>
SatyaNadella == <<"S","a","t","y","a"," ","N","a","d","e","l","l","a">>
OprahWinfrey == <<"O","p","r","a","h"," ","W","i","n","f","r","e","y">>
RichardBranson == <<"R","i","c","h","a","r","d"," ","B","r","a","n","s","o","n">>

CatLiving == <<"C","a","t","e","g","o","r","y",":","L","i","v","i","n","g"," ","p","e","o","p","l","e">>
CatBirths == <<"C","a","t","e","g","o","r","y",":","1","9","4","6"," ","b","i","r","t","h","s">>
CatBands == <<"C","a","t","e","g","o","r","y",":","A","m","e","r","i","c","a","n"," ","r","o","c","k"," ","b","a","n","d","s">>
CatFounders == <<"C","a","t","e","g","o","r","y",":","A","m","e","r","i","c","a","n"," ","t","e","c","h","n","o","l","o","g","y"," ","c","o","m","p","a","n","y"," ","f","o","u","n","d","e","r","s">>
CatBreeders == <<"C","a","t","e","g","o","r","y",":","D","o","g"," ","b","r","e","e","d","e","r","s">>
CatFilms == <<"C","a","t","e","g","o","r","y",":","2","0","0","9"," ","f","i","l","m","s">>
CatTrainers == <<"C","a","t","e","g","o","r","y",":","H","o","r","s","e"," ","t","r","a","i","n","e","r","s">>

Titles == {Ann, Bob, Cy, Dee, Eve, Gus, Hal, Harold, Kurt, Rex, Plato, ListOfB, FiftyCent, Y1984,
           Ida, Jo, Max, Zed, JackMa,
           TaylorSwift, HenryKissinger, Album1989, HoChiMinhCity, VietnamWar,
           Liz, Finn, Mo, UpFilm,
           BillGates, SteveJobs, ElonMusk, JeffBezos, LarryPage, SergeyBrin,
           MarkZuckerberg, WarrenBuffett, SatyaNadella, OprahWinfrey, RichardBranson}

\* prop=links answer for a title (in API order)
ApiLinks(t) ==
    CASE t = Ann -> <<Bob, ListOfB, Y1984, Cy>>
      [] t = Bob -> <<Kurt, Eve>>
      [] t = Cy  -> <<Rex>>
      [] t = Eve -> <<Harold>>
      [] t = Ida -> <<Jo, Max>>
      [] t = Jo  -> <<Plato, JackMa>>
      [] t = Max -> <<Plato, JackMa>>
      [] t = TaylorSwift -> <<HenryKissinger, Album1989, HoChiMinhCity, VietnamWar>>
      [] t = Liz -> <<Finn, UpFilm, Mo>>
      [] t = BillGates -> <<ElonMusk, JeffBezos>>
      [] t = ElonMusk -> <<MarkZuckerberg, WarrenBuffett>>
      [] t = JeffBezos -> <<SatyaNadella, OprahWinfrey>>
      [] OTHER   -> <<>>

\* list=backlinks answer for a title
ApiBacklinks(t) ==
    CASE t = Dee -> <<Plato, Eve, Gus>>
      [] t = Ann -> <<Bob>>
      [] t = Zed -> <<Plato, JackMa>>
      [] t = SteveJobs -> <<LarryPage, SergeyBrin>>
      [] t = LarryPage -> <<RichardBranson>>
      [] OTHER   -> <<>>

Page(title, missing, categories) ==
    [title |-> title, missing |-> missing, categories |-> categories]

\* The pages a category query for title t can be answered with.  With
\* redirects=1 a page carries the title of the redirect target (Rex is a
\* redirect to Dee, Kurt one to Eve, Gus one to 50 Cent, Harold one to Hal;
\* Hal itself has no link and no backlink).  cllimit caps the
\* categories of a whole response, so a page can arrive with its categories
\* cut off; a page can also be reported missing.
ApiCategoryPages(t) ==
    CASE t = Rex  -> {Page(Dee, FALSE, <<CatLiving>>), Page(Dee, FALSE, <<>>)}
      [] t = Kurt -> {Page(Eve, FALSE, <<CatLiving, CatTrainers>>), Page(Eve, FALSE, <<>>)}
      [] t = Gus  -> {Page(FiftyCent, FALSE, <<CatBirths>>)}
      [] t = Harold -> {Page(Hal, FALSE, <<CatLiving>>)}
      [] t = Eve  -> {Page(Eve, FALSE, <<CatLiving, CatTrainers>>), Page(Eve, TRUE, <<>>)}
      [] t = Cy   -> {Page(Cy, FALSE, <<CatBirths>>), Page(Cy, FALSE, <<CatBands>>)}
      [] t = Finn -> {Page(Finn, FALSE, <<CatLiving, CatFounders>>)}
      [] t = Mo   -> {Page(Mo, FALSE, <<CatLiving, CatBreeders>>)}
      [] t = UpFilm -> {Page(UpFilm, FALSE, <<CatFilms>>)}
      [] OTHER    -> {Page(t, FALSE, <<CatLiving>>)}

\* the page the query for t is answered with while the API's data does not
\* change: the page in full
StablePage(t) ==
    CASE t = Rex  -> Page(Dee, FALSE, <<CatLiving>>)
      [] t = Kurt -> Page(Eve, FALSE, <<CatLiving, CatTrainers>>)
      [] t = Eve  -> Page(Eve, FALSE, <<CatLiving, CatTrainers>>)
      [] t = Cy   -> Page(Cy, FALSE, <<CatBirths>>)
      [] t = Gus  -> Page(FiftyCent, FALSE, <<CatBirths>>)
      [] t = Harold -> Page(Hal, FALSE, <<CatLiving>>)
      [] t = Finn -> Page(Finn, FALSE, <<CatLiving, CatFounders>>)
      [] t = Mo   -> Page(Mo, FALSE, <<CatLiving, CatBreeders>>)
      [] t = UpFilm -> Page(UpFilm, FALSE, <<CatFilms>>)
      [] OTHER    -> Page(t, FALSE, <<CatLiving>>)

-----------------------------------------------------------------------------
(* State *)

VARIABLES
    start_page, end_page,       \* self.start_page, self.end_page
    queue_f, queue_b,           \* self.queue_f, self.queue_b
    parent_f, parent_b,         \* self.parent_f, self.parent_b
    step_count,                 \* self.step_count
    pc,                         \* where the generator search() stands
    direction, level_nodes,     \* locals of the running iteration
    tasks,                      \* the _process_node tasks of the running gather
    semaphore,                  \* free permits of self.semaphore
    orphans,                    \* requests left running by a gather that raised
    page_cache, category_cache, backlink_cache,
    events,                     \* the messages yielded so far
    now,                        \* time.time() - start_time
    returned,                   \* what _batch_check_categories has returned, per node
    reported_missing,           \* titles a category response has reported missing
    disk,                       \* the three cache files as load_cache would find them
    random,                     \* the state of the generator random.shuffle draws from
    first,                      \* the search the running one is compared with, once it is over
    wsp,                        \* the run of bidirectional_bfs of wiki_shortest_path.py
    ndjson                      \* the records event_generator of main.py has yielded

vars == << start_page, end_page, queue_f, queue_b, parent_f, parent_b, step_count,
           pc, direction, level_nodes, tasks, semaphore, orphans,
           page_cache, category_cache, backlink_cache, events, now, returned,
           reported_missing,
           disk,
           random,
           first,
           wsp,
           ndjson >>

searchVars == << start_page, end_page, queue_f, queue_b, parent_f, parent_b,
                 step_count, direction, level_nodes >>

cacheVars == << page_cache, category_cache, backlink_cache >>

EmptyMap == [t \in {} |-> None]

\* dict.get(key)
Get(map, key) == IF key \in DOMAIN map THEN map[key] ELSE None

Last(s) == s[Len(s)]

RECURSIVE Reverse(_)
Reverse(s) == IF s = <<>> THEN <<>> ELSE Append(Reverse(Tail(s)), s[1])

RECURSIVE Concat(_)
Concat(ss) == IF ss = <<>> THEN <<>> ELSE ss[1] \o Concat(Tail(ss))

-----------------------------------------------------------------------------
(* Events *)

Event(status, message, dir, nodes, path) ==
    [status |-> status, message |-> message, direction |-> dir,
     nodes |-> nodes, path |-> path]

InfoEvent == Event("info", "Initializing Bidirectional Search", "", <<>>, <<>>)
ExploringEvent(dir, nodes) == Event("exploring", "", dir, nodes, <<>>)
FinishedEvent(path) == Event("finished", "", "", <<>>, path)
ErrorEvent(message) == Event("error", message, "", <<>>, <<>>)
NotFoundEvent == Event("not_found", "No path found.", "", <<>>, <<>>)

TerminalStatuses == {"finished", "not_found", "error"}

-----------------------------------------------------------------------------
(* Initial state: module import (load_cache), BidirectionalBFS(), and the  *)
(* assignments search() makes before its first yield.                      *)

\* the endpoint pairs the search is started with
SearchPairs == { <<Ann, Dee>>, <<Ann, Ann>>, <<Ann, Hal>>, <<Hal, Dee>>,
                 <<Ida, Zed>>, <<TaylorSwift, Hal>>, <<Liz, Hal>>,
                 <<BillGates, SteveJobs>> }

\* The cache files, in the order save_cache and load_cache go through them
\* (bfs.py:174-178, 196-200).  A file is its parsed content when json.load
\* can read it; a file that was truncated or written in part cannot be read.
CacheFileOrder == << "page", "category", "backlink" >>
CacheFiles == Range(CacheFileOrder)
File(data) == [ok |-> TRUE, data |-> data]
TornFile == [ok |-> FALSE, data |-> EmptyMap]

\* what load_cache finds on disk: nothing, or the entries of an earlier run
LoadedCaches ==
    { [page |-> EmptyMap, category |-> EmptyMap, backlink |-> EmptyMap],
      [page |-> (Ann :> << <<>>, ApiLinks(Ann) >>),
       category |-> (Bob :> TRUE) @@ (Plato :> FALSE),
       backlink |-> (Dee :> ApiBacklinks(Dee))] }

\* bidirectional_bfs of wiki_shortest_path.py has not been called
NoRun ==
    [pc |-> "idle", links |-> {}, start_page |-> None, end_page |-> None,
     queue_start |-> <<>>, queue_end |-> <<>>,
     visited_start |-> EmptyMap, visited_end |-> EmptyMap, result |-> None]

\* no search came before the running one
NoFirstRun ==
    [run |-> 0, mirrored |-> FALSE, start |-> None, end |-> None,
     caches |-> [f \in CacheFiles |-> EmptyMap], events |-> <<>>]

InitProgram ==
    /\ \E pair \in SearchPairs :
          /\ start_page = pair[1]
          /\ end_page = pair[2]
    /\ queue_f = <<start_page>>
    /\ parent_f = (start_page :> None)
    /\ queue_b = <<end_page>>
    /\ parent_b = (end_page :> None)
    /\ step_count = 0
    /\ pc = "start"
    /\ direction = ""
    /\ level_nodes = <<>>
    /\ tasks = <<>>
    /\ semaphore = CONCURRENT_REQUESTS
    /\ orphans = 0
    /\ \E loaded \in LoadedCaches :
          /\ page_cache = loaded.page
          /\ category_cache = loaded.category
          /\ backlink_cache = loaded.backlink
          /\ disk = [f \in CacheFiles |-> File(loaded[f])]
    /\ events = <<>>
    /\ now = 0
    /\ returned = {}
    /\ reported_missing = {}

Init ==
    /\ InitProgram
    /\ random = Unseeded
    /\ first = NoFirstRun
    /\ wsp = NoRun
    /\ ndjson = <<>>

-----------------------------------------------------------------------------
(* _batch_check_categories *)

\* a classifier that does not take the VIP titles out of what it goes on to
\* look up
RemainingTitles_withVip(titles) == titles

\* vip_humans, remaining_titles (bfs.py:511-512)
VipHumans(titles) == SelectSeq(titles, LAMBDA t : t \in VIP_ALLOWLIST)
RemainingTitles(titles) == SelectSeq(titles, LAMBDA t : t \notin VIP_ALLOWLIST)

\* cached_humans, uncached (bfs.py:517-525)
CachedHumans(remaining, cache) ==
    SelectSeq(remaining, LAMBDA t : t \in DOMAIN cache /\ cache[t])
Uncached(remaining, cache) ==
    SelectSeq(remaining, LAMBDA t : t \notin DOMAIN cache)

\* batches (bfs.py:534-537)
Batches(uncached) ==
    [k \in 1..((Len(uncached) + CATEGORY_BATCH_SIZE - 1) \div CATEGORY_BATCH_SIZE) |->
        SubSeq(uncached, (k - 1) * CATEGORY_BATCH_SIZE + 1,
               Min(k * CATEGORY_BATCH_SIZE, Len(uncached)))]

\* The answers the API can give to one category query: a page per title
\* asked, in the order asked; titles that resolve to the same page share it
\* (pages are keyed by page id).
RECURSIVE PageAnswersFrom(_, _)
PageAnswersFrom(batch, seen) ==
    IF batch = <<>> THEN { <<>> }
    ELSE UNION { IF p.title \in seen
                 THEN PageAnswersFrom(Tail(batch), seen)
                 ELSE { <<p>> \o rest :
                           rest \in PageAnswersFrom(Tail(batch), seen \cup {p.title}) }
                 : p \in ApiCategoryPages(batch[1]) }

PageAnswers(batch) == PageAnswersFrom(batch, {})

\* the one answer to a category query while the API's data does not change
RECURSIVE StableAnswerFrom(_, _)
StableAnswerFrom(batch, seen) ==
    IF batch = <<>> THEN <<>>
    ELSE LET p == StablePage(batch[1])
         IN  IF p.title \in seen
             THEN StableAnswerFrom(Tail(batch), seen)
             ELSE <<p>> \o StableAnswerFrom(Tail(batch), seen \cup {p.title})

StableAnswer(batch) == StableAnswerFrom(batch, {})

\* the loop over pages.values() in check_batch (bfs.py:568-588)
RECURSIVE ProcessPages(_, _, _)
ProcessPages(pages, cache, humans) ==
    IF pages = <<>> THEN [cache |-> cache, humans |-> humans]
    ELSE LET page == pages[1]
             title == page.title
         IN IF page.missing
            THEN ProcessPages(Tail(pages), (title :> FALSE) @@ cache, humans)
            ELSE LET is_human == PageIsHuman(page)
                 IN ProcessPages(Tail(pages), (title :> is_human) @@ cache,
                                 IF is_human THEN Append(humans, title) ELSE humans)

\* the titles of the pages a response flags as missing (bfs.py:571)
MissingTitles(pages) == { pages[k].title : k \in { n \in 1..Len(pages) : pages[n].missing } }

\* the return value of _batch_check_categories (bfs.py:529, 607)
ClassifierResult(vip_humans, cached_humans, human_titles) ==
    vip_humans \o cached_humans \o human_titles

-----------------------------------------------------------------------------
(* _process_node tasks *)

\* a _process_node that hands on the filtered candidates instead of the
\* classifier's answer
ProcessNodeChildren_unclassified(filtered, humans) == Take(filtered, MAX_DEGREE)

\* the children in the dict _process_node returns (bfs.py:476-479)
ProcessNodeChildren(filtered, humans) == Take(humans, MAX_DEGREE)

\* a check_batch task; outcome is how its request ended, once it has, and
\* pages the pages of the response it read
SubTask(batch) ==
    [batch |-> batch, pc |-> "wait", humans |-> <<>>, outcome |-> "", pages |-> <<>>]

\* a _process_node task of the gather (bfs.py:388); fetch is how its call of
\* _get_page_data or _get_backlinks ended ("hit", or the outcome of the
\* request), nfinished is its place in the order in which the tasks of the
\* gather returned, 0 while it runs
NewTask(node) ==
    [node |-> node, pc |-> "wait", reqs |-> 0, candidates |-> <<>>, filtered |-> <<>>,
     to_check |-> <<>>, vip_humans |-> <<>>, cached_humans |-> <<>>, subs |-> <<>>,
     humans |-> <<>>, children |-> <<>>, fetch |-> "", nfinished |-> 0]

\* the task as the gather sees it after this step: a task that has returned
\* is the next one in the order of completion
AsCompleted(task, others) ==
    IF task.pc = "done"
    THEN [task EXCEPT !.nfinished =
             Cardinality({k \in 1..Len(others) : others[k].pc = "done"}) + 1]
    ELSE task

\* _process_node returning with the classifier's answer: the task is over
TaskReturns(task, humans) ==
    [task EXCEPT !.pc = "done", !.humans = humans,
                 !.children = ProcessNodeChildren(task.filtered, humans)]

\* From the return of the fetch to the next await (bfs.py:460-468, 505-537,
\* 596-597): filter, shuffle, cut, VIP and cache split; either the classifier
\* returns at once or it awaits its check_batch tasks.
StartClassify(task, candidates, shuffled, cache) ==
    LET to_check  == Take(shuffled, MAX_CANDIDATES_TO_CHECK)
        vip       == VipHumans(to_check)
        remaining == RemainingTitles(to_check)
        cached    == CachedHumans(remaining, cache)
        uncached  == Uncached(remaining, cache)
        t0 == [task EXCEPT !.reqs = 0, !.candidates = candidates,
                           !.filtered = shuffled, !.to_check = to_check]
    IN  IF to_check = <<>> THEN TaskReturns(t0, <<>>)
        ELSE IF uncached = <<>>
             THEN TaskReturns(t0, ClassifierResult(vip, cached, <<>>))
             ELSE [t0 EXCEPT !.pc = "classify", !.vip_humans = vip,
                             !.cached_humans = cached,
                             !.subs = [k \in 1..Len(Batches(uncached)) |->
                                          SubTask(Batches(uncached)[k])]]

\* what the history variable records when a task's classifier call returns
Returned(dir, task) == { <<dir, task.node, task.humans[k]>> : k \in 1..Len(task.humans) }

\* the lists _get_page_data and _get_backlinks can return: an answer of the
\* API, or nothing
FetchResults ==
    {<<>>} \cup {ApiLinks(t) : t \in Titles} \cup {ApiBacklinks(t) : t \in Titles}

\* filtered = self._heuristic_filter(candidates) (bfs.py:461), worked out
\* once for each list a fetch can return
Filtered == [candidates \in FetchResults |-> _heuristic_filter(candidates)]

\* The task resumes with the fetched candidates, holding its permit;
\* `permits` are the free permits at that moment, `how` is the way the fetch
\* ended.
AfterFetch(i, candidates, permits, how) ==
    \E shuffled \in ShuffleResults(Filtered[candidates], random) :
        LET t == StartClassify([tasks[i] EXCEPT !.fetch = how], candidates, shuffled,
                               category_cache)
        IN  /\ tasks' = [tasks EXCEPT ![i] = AsCompleted(t, tasks)]
            /\ random' = AfterShuffle(random, Len(shuffled))
            /\ semaphore' = IF t.pc = "done" THEN permits + 1 ELSE permits
            /\ returned' = IF t.pc = "done" THEN returned \cup Returned(direction, t)
                           ELSE returned

\* async with self.semaphore (bfs.py:452), then the cache lookup of
\* _get_page_data / _get_backlinks (bfs.py:666-667, 723-724): a hit goes on
\* without awaiting, a miss sends the requests (two for page data, one for
\* backlinks).
TaskAcquire(i) ==
    /\ pc = "gather"
    /\ i \in 1..Len(tasks)
    /\ tasks[i].pc = "wait"
    /\ semaphore > 0
    /\ LET node == tasks[i].node
       IN IF direction = "forward"
          THEN IF node \in DOMAIN page_cache
               THEN AfterFetch(i, page_cache[node][2], semaphore - 1, "hit")
               ELSE /\ tasks' = [tasks EXCEPT ![i].pc = "fetch", ![i].reqs = 2]
                    /\ semaphore' = semaphore - 1
                    /\ UNCHANGED << returned, random >>
          ELSE IF node \in DOMAIN backlink_cache
               THEN AfterFetch(i, backlink_cache[node], semaphore - 1, "hit")
               ELSE /\ tasks' = [tasks EXCEPT ![i].pc = "fetch", ![i].reqs = 1]
                    /\ semaphore' = semaphore - 1
                    /\ UNCHANGED << returned, random >>
    /\ UNCHANGED << searchVars, pc, orphans, cacheVars, events, now,
                    reported_missing, disk, first, wsp, ndjson >>

\* One of the two requests of _get_page_data comes back (bfs.py:683-706).
\*   "ok"        a well-formed answer
\*   "malformed" an answer whose JSON lacks the data: parsed as ("", [])
\*   "raise"     a transport error, a timeout or unparsable JSON: the gather
\*               raises at once and the other request is left running
PageResponse(i, outcome) ==
    /\ pc = "gather"
    /\ direction = "forward"
    /\ i \in 1..Len(tasks)
    /\ tasks[i].pc = "fetch"
    /\ LET node == tasks[i].node
       IN CASE outcome = "raise" ->
                 /\ orphans' = orphans + (tasks[i].reqs - 1)
                 /\ UNCHANGED page_cache
                 /\ AfterFetch(i, <<>>, semaphore, outcome)
            [] outcome \in {"ok", "malformed"} /\ tasks[i].reqs = 2 ->
                 /\ outcome = "ok"
                 /\ tasks' = [tasks EXCEPT ![i].reqs = 1]
                 /\ UNCHANGED << orphans, page_cache, semaphore, returned, random >>
            [] outcome \in {"ok", "malformed"} /\ tasks[i].reqs = 1 ->
                 LET links == IF outcome = "ok" THEN ApiLinks(node) ELSE <<>>
                 IN  /\ page_cache' = (node :> << <<>>, links >>) @@ page_cache
                     /\ UNCHANGED orphans
                     /\ AfterFetch(i, links, semaphore, outcome)
    /\ UNCHANGED << searchVars, pc, category_cache, backlink_cache, events, now,
                    reported_missing, disk, first, wsp, ndjson >>

\* The request of _get_backlinks comes back (bfs.py:736-751).
BacklinkResponse(i, outcome) ==
    /\ pc = "gather"
    /\ direction = "backward"
    /\ i \in 1..Len(tasks)
    /\ tasks[i].pc = "fetch"
    /\ LET node == tasks[i].node
           backlinks == IF outcome = "ok" THEN ApiBacklinks(node) ELSE <<>>
       IN  /\ backlink_cache' = IF outcome = "raise" THEN backlink_cache
                                ELSE (node :> backlinks) @@ backlink_cache
           /\ AfterFetch(i, backlinks, semaphore, outcome)
    /\ UNCHANGED << searchVars, pc, orphans, page_cache, category_cache, events, now,
                    reported_missing, disk, first, wsp, ndjson >>

\* a request abandoned by its gather comes back; nobody reads the answer
OrphanResponse ==
    /\ orphans > 0
    /\ orphans' = orphans - 1
    /\ UNCHANGED << searchVars, pc, tasks, semaphore, cacheVars, events, now, returned,
                    reported_missing, disk, random, first, wsp, ndjson >>

\* check_batch: async with self.semaphore, then the request is sent
\* (bfs.py:553-559)
SubAcquire(i, j) ==
    /\ pc = "gather"
    /\ i \in 1..Len(tasks)
    /\ tasks[i].pc = "classify"
    /\ j \in 1..Len(tasks[i].subs)
    /\ tasks[i].subs[j].pc = "wait"
    /\ semaphore > 0
    /\ semaphore' = semaphore - 1
    /\ tasks' = [tasks EXCEPT ![i].subs[j].pc = "req"]
    /\ UNCHANGED << searchVars, pc, orphans, cacheVars, events, now, returned,
                    reported_missing, disk, random, first, wsp, ndjson >>

\* check_batch: the category request comes back and the permit is given
\* back (bfs.py:555-593).
\*   "raise"   the request raised, or the body is no JSON: humans is returned
\*             as built so far, i.e. empty
\*   "status"  resp.status_code != 200: returns []
\*   "ok"      the pages are read in turn
SubResponseFrom(i, j, outcome, stable) ==
    /\ pc = "gather"
    /\ i \in 1..Len(tasks)
    /\ tasks[i].pc = "classify"
    /\ j \in 1..Len(tasks[i].subs)
    /\ tasks[i].subs[j].pc = "req"
    /\ semaphore' = semaphore + 1
    /\ IF outcome = "ok"
       THEN \E pages \in IF stable THEN { StableAnswer(tasks[i].subs[j].batch) }
                          ELSE PageAnswers(tasks[i].subs[j].batch) :
               LET r == ProcessPages(pages, category_cache, <<>>)
               IN  /\ category_cache' = r.cache
                   /\ reported_missing' = reported_missing \cup MissingTitles(pages)
                   /\ tasks' = [tasks EXCEPT ![i].subs[j].pc = "done",
                                             ![i].subs[j].outcome = outcome,
                                             ![i].subs[j].pages = pages,
                                             ![i].subs[j].humans = r.humans]
       ELSE /\ tasks' = [tasks EXCEPT ![i].subs[j].pc = "done",
                                     ![i].subs[j].outcome = outcome]
            /\ UNCHANGED << category_cache, reported_missing >>
    /\ UNCHANGED << searchVars, pc, orphans, page_cache, backlink_cache, events, now,
                    returned, disk, random, first, wsp, ndjson >>

SubResponse(i, j, outcome) == SubResponseFrom(i, j, outcome, FALSE)

\* the gather over the check_batch tasks is complete: _batch_check_categories
\* returns, _process_node returns and leaves its async with (bfs.py:597-607,
\* 476-479)
TaskJoin(i) ==
    /\ pc = "gather"
    /\ i \in 1..Len(tasks)
    /\ tasks[i].pc = "classify"
    /\ \A j \in 1..Len(tasks[i].subs) : tasks[i].subs[j].pc = "done"
    /\ LET task == tasks[i]
           human_titles == Concat([j \in 1..Len(task.subs) |-> task.subs[j].humans])
           t == TaskReturns(task, ClassifierResult(task.vip_humans, task.cached_humans,
                                                    human_titles))
       IN  /\ tasks' = [tasks EXCEPT ![i] = AsCompleted(t, tasks)]
           /\ returned' = returned \cup Returned(direction, t)
    /\ semaphore' = semaphore + 1
    /\ UNCHANGED << searchVars, pc, orphans, cacheVars, events, now,
                    reported_missing, disk, random, first, wsp, ndjson >>

-----------------------------------------------------------------------------
(* main.py: event_generator, the consumer of the messages search() yields *)

\* PageDetail as get_page_details returns it for a title, found or not
\* (main.py:74, 79)
PageDetail(title) == [title |-> title]

\* enriched_path once every edge has its context (main.py:255-278)
EnrichedPath(path_nodes) ==
    [k \in 1..Len(path_nodes) |->
        [node |-> PageDetail(path_nodes[k]),
         edge_context |-> IF k < Len(path_nodes) THEN "context" ELSE "None"]]

\* What event_generator yields for a finished message (main.py:250-285).
\* The loop over the edges calls generate_relationship_context, a name
\* main.py neither defines nor imports (main.py:1-14, 265): the first edge
\* raises NameError, which the except branch turns into an error record.
\* path_nodes[-1] raises IndexError on an empty path.
FinishedRecord(path_nodes) ==
    CASE Len(path_nodes) = 0 -> ErrorEvent("list index out of range")
      [] Len(path_nodes) = 1 ->
            [status |-> "finished", path_with_context |-> EnrichedPath(path_nodes)]
      [] OTHER -> ErrorEvent("name 'generate_relationship_context' is not defined")

\* One turn of the async for of event_generator (main.py:249-287).  A yield
\* of search() hands the message to event_generator, which yields its
\* record before search() is resumed: the records after the turn.
event_generator(records, message) ==
    Append(records, IF message.status = "finished"
                    THEN FinishedRecord(message.path)
                    ELSE message)

-----------------------------------------------------------------------------
(* search(): the main loop *)

\* _reconstruct_path: the chain of parents from node to the root
RECURSIVE ParentChain(_, _)
ParentChain(current, parent_map) ==
    IF current = None THEN <<>>
    ELSE <<current>> \o ParentChain(Get(parent_map, current), parent_map)

_reconstruct_path(node, parent_map, reverse) ==
    IF reverse THEN ParentChain(node, parent_map)
    ELSE Reverse(ParentChain(node, parent_map))

\* a full_path that joins the two chains as they are
FullPath_bothChains(child, pf, pb) ==
    _reconstruct_path(child, pf, FALSE) \o _reconstruct_path(child, pb, TRUE)

\* full_path (bfs.py:410-412)
FullPath(child, pf, pb) ==
    LET path_f == _reconstruct_path(child, pf, FALSE)
        path_b == _reconstruct_path(child, pb, TRUE)
    IN  SubSeq(path_f, 1, Len(path_f) - 1) \o path_b

\* a merge loop that takes the results in the order the tasks returned
MergePairs_completionOrder(results) ==
    LET done == [r \in 1..Len(results) |->
                    results[CHOOSE i \in 1..Len(results) : results[i].nfinished = r]]
    IN  Concat([i \in 1..Len(done) |->
                  [k \in 1..Len(done[i].children) |->
                      << done[i].node, done[i].children[k] >>]])

\* the (current_node, child) pairs in the order the merge loop visits them
\* (bfs.py:391-401)
MergePairs(results) ==
    Concat([i \in 1..Len(results) |->
              [k \in 1..Len(results[i].children) |->
                  << results[i].node, results[i].children[k] >>]])

\* a merge loop without the test  child in parent_own
RECURSIVE Merge_reinserting(_, _, _, _)
Merge_reinserting(pairs, parent_own, queue, parent_other) ==
    IF pairs = <<>>
    THEN [parent_own |-> parent_own, queue |-> queue, meeting |-> None]
    ELSE LET current_node == pairs[1][1]
             child == pairs[1][2]
             po == (child :> current_node) @@ parent_own
             q  == Append(queue, child)
         IN IF child \in DOMAIN parent_other
            THEN [parent_own |-> po, queue |-> q, meeting |-> child]
            ELSE Merge_reinserting(Tail(pairs), po, q, parent_other)

\* a merge loop that records the pair the wrong way round
RECURSIVE Merge_childAsParent(_, _, _, _)
Merge_childAsParent(pairs, parent_own, queue, parent_other) ==
    IF pairs = <<>>
    THEN [parent_own |-> parent_own, queue |-> queue, meeting |-> None]
    ELSE LET current_node == pairs[1][1]
             child == pairs[1][2]
         IN IF child \in DOMAIN parent_own
            THEN Merge_childAsParent(Tail(pairs), parent_own, queue, parent_other)
            ELSE LET po == (current_node :> child) @@ parent_own
                     q  == Append(queue, child)
                 IN IF child \in DOMAIN parent_other
                    THEN [parent_own |-> po, queue |-> q, meeting |-> child]
                    ELSE Merge_childAsParent(Tail(pairs), po, q, parent_other)

\* the merge loop (bfs.py:401-416): stops at the first child found in the
\* other direction's parent map
RECURSIVE Merge(_, _, _, _)
Merge(pairs, parent_own, queue, parent_other) ==
    IF pairs = <<>>
    THEN [parent_own |-> parent_own, queue |-> queue, meeting |-> None]
    ELSE LET current_node == pairs[1][1]
             child == pairs[1][2]
         IN IF child \in DOMAIN parent_own
            THEN Merge(Tail(pairs), parent_own, queue, parent_other)
            ELSE LET po == (child :> current_node) @@ parent_own
                     q  == Append(queue, child)
                 IN IF child \in DOMAIN parent_other
                    THEN [parent_own |-> po, queue |-> q, meeting |-> child]
                    ELSE Merge(Tail(pairs), po, q, parent_other)

\* the first yield (bfs.py:328-331)
Start ==
    /\ pc = "start"
    /\ events' = Append(events, InfoEvent)
    /\ ndjson' = event_generator(ndjson, InfoEvent)
    /\ pc' = "loop"
    /\ UNCHANGED << searchVars, tasks, semaphore, orphans, cacheVars, now, returned,
                    reported_missing, disk, random, first, wsp >>

\* the dict save_cache writes to a file (bfs.py:196-200)
MemoryCache(f) ==
    CASE f = "page" -> page_cache
      [] f = "category" -> category_cache
      [] f = "backlink" -> backlink_cache

\* save_cache and a terminal yield followed by return; leaving the async with
\* of bfs.py:325 closes the client, and with it whatever requests were still
\* running
Terminate(event) ==
    /\ disk' = [f \in CacheFiles |-> File(MemoryCache(f))]
    /\ events' = Append(events, event)
    /\ ndjson' = event_generator(ndjson, event)
    /\ pc' = "done"
    /\ orphans' = 0

\* the while condition fails (bfs.py:333, 427-428)
NotFound ==
    /\ pc = "loop"
    /\ queue_f = <<>> \/ queue_b = <<>>
    /\ Terminate(NotFoundEvent)
    /\ UNCHANGED << searchVars, tasks, semaphore, cacheVars, now, returned,
                    reported_missing, random, first, wsp >>

\* a count that leaves out the forward map
total_visited_backwardOnly == Cardinality(DOMAIN parent_b)

\* total_visited of the iteration (bfs.py:346)
total_visited == Cardinality(DOMAIN parent_f) + Cardinality(DOMAIN parent_b)

\* the timeout check (bfs.py:334-343)
TimedOut ==
    /\ pc = "loop"
    /\ queue_f # <<>> /\ queue_b # <<>>
    /\ now > TIMEOUT_SECONDS
    /\ Terminate(ErrorEvent("Search timed out"))
    /\ UNCHANGED << searchVars, tasks, semaphore, cacheVars, now, returned,
                    reported_missing, random, first, wsp >>

\* the visited check (bfs.py:345-353)
NodeLimit ==
    /\ pc = "loop"
    /\ queue_f # <<>> /\ queue_b # <<>>
    /\ ~(now > TIMEOUT_SECONDS)
    /\ total_visited > MAX_NODES_VISITED
    /\ Terminate(ErrorEvent("Search limit exceeded"))
    /\ UNCHANGED << searchVars, tasks, semaphore, cacheVars, now, returned,
                    reported_missing, random, first, wsp >>

\* a frontier choice that sends a tie backward
ExpandForward_strict(qf, qb) == Len(qf) < Len(qb)

\* the frontier choice (bfs.py:358)
ExpandForward(qf, qb) == Len(qf) <= Len(qb)

\* an iteration that yields no exploring event
BeginIteration_silent ==
    /\ pc = "loop"
    /\ queue_f # <<>> /\ queue_b # <<>>
    /\ ~(now > TIMEOUT_SECONDS)
    /\ ~(total_visited > MAX_NODES_VISITED)
    /\ step_count' = step_count + 1
    /\ LET fwd == ExpandForward(queue_f, queue_b)
           queue == IF fwd THEN queue_f ELSE queue_b
           n == Min(Len(queue), BATCH_SIZE)
       IN  /\ direction' = IF fwd THEN "forward" ELSE "backward"
           /\ level_nodes' = Take(queue, n)
           /\ queue_f' = IF fwd THEN Drop(queue_f, n) ELSE queue_f
           /\ queue_b' = IF fwd THEN queue_b ELSE Drop(queue_b, n)
    /\ tasks' = [i \in 1..Len(level_nodes') |-> NewTask(level_nodes'[i])]
    /\ pc' = "gather"
    /\ UNCHANGED << start_page, end_page, parent_f, parent_b, semaphore, orphans,
                    cacheVars, events, now, returned, reported_missing, disk, random,
                    first, wsp, ndjson >>

\* one iteration up to the gather (bfs.py:355-389)
BeginIteration ==
    /\ pc = "loop"
    /\ queue_f # <<>> /\ queue_b # <<>>
    /\ ~(now > TIMEOUT_SECONDS)
    /\ ~(total_visited > MAX_NODES_VISITED)
    /\ step_count' = step_count + 1
    /\ LET fwd == ExpandForward(queue_f, queue_b)
           queue == IF fwd THEN queue_f ELSE queue_b
           n == Min(Len(queue), BATCH_SIZE)
       IN  /\ direction' = IF fwd THEN "forward" ELSE "backward"
           /\ level_nodes' = Take(queue, n)
           /\ queue_f' = IF fwd THEN Drop(queue_f, n) ELSE queue_f
           /\ queue_b' = IF fwd THEN queue_b ELSE Drop(queue_b, n)
    /\ events' = Append(events, ExploringEvent(direction', level_nodes'))
    /\ ndjson' = event_generator(ndjson, ExploringEvent(direction', level_nodes'))
    /\ tasks' = [i \in 1..Len(level_nodes') |-> NewTask(level_nodes'[i])]
    /\ pc' = "gather"
    /\ UNCHANGED << start_page, end_page, parent_f, parent_b, semaphore, orphans,
                    cacheVars, now, returned, reported_missing, disk, random, first,
                    wsp >>

\* a merge that never looks into the parent map of the other direction
LevelMerge_blindToOther ==
    LET fwd == direction = "forward"
    IN  Merge(MergePairs(tasks),
              IF fwd THEN parent_f ELSE parent_b,
              IF fwd THEN queue_f ELSE queue_b,
              << >>)

\* the merge loop on the results of the level that was gathered
LevelMerge ==
    LET fwd == direction = "forward"
    IN  Merge(MergePairs(tasks),
              IF fwd THEN parent_f ELSE parent_b,
              IF fwd THEN queue_f ELSE queue_b,
              IF fwd THEN parent_b ELSE parent_f)

\* a merge that ends the search with an error event when a node of the level
\* came back without candidates
MergeResults_errorOnEmptyFetch ==
    /\ pc = "gather"
    /\ \A i \in 1..Len(tasks) : tasks[i].pc = "done"
    /\ LET fwd == direction = "forward"
           m == LevelMerge
           pf == IF fwd THEN m.parent_own ELSE parent_f
           pb == IF fwd THEN parent_b ELSE m.parent_own
       IN  /\ parent_f' = pf
           /\ parent_b' = pb
           /\ queue_f' = IF fwd THEN m.queue ELSE queue_f
           /\ queue_b' = IF fwd THEN queue_b ELSE m.queue
           /\ IF m.meeting # None
              THEN Terminate(FinishedEvent(FullPath(m.meeting, pf, pb)))
              ELSE IF \/ step_count > MAX_STEP_COUNT
                      \/ \E i \in 1..Len(tasks) : tasks[i].candidates = <<>>
                   THEN Terminate(ErrorEvent("Search depth limit exceeded"))
                   ELSE pc' = "loop" /\ UNCHANGED << events, ndjson, orphans, disk >>
    /\ UNCHANGED << start_page, end_page, step_count, direction, level_nodes, tasks,
                    semaphore, cacheVars, now, returned, reported_missing, random,
                    first, wsp >>

\* the gather is complete: merge the results, then either the meeting, the
\* depth check, or the next turn of the loop (bfs.py:389-425)
MergeResults ==
    /\ pc = "gather"
    /\ \A i \in 1..Len(tasks) : tasks[i].pc = "done"
    /\ LET fwd == direction = "forward"
           m == LevelMerge
           pf == IF fwd THEN m.parent_own ELSE parent_f
           pb == IF fwd THEN parent_b ELSE m.parent_own
       IN  /\ parent_f' = pf
           /\ parent_b' = pb
           /\ queue_f' = IF fwd THEN m.queue ELSE queue_f
           /\ queue_b' = IF fwd THEN queue_b ELSE m.queue
           /\ IF m.meeting # None
              THEN Terminate(FinishedEvent(FullPath(m.meeting, pf, pb)))
              ELSE IF step_count > MAX_STEP_COUNT
                   THEN Terminate(ErrorEvent("Search depth limit exceeded"))
                   ELSE pc' = "loop" /\ UNCHANGED << events, ndjson, orphans, disk >>
    /\ UNCHANGED << start_page, end_page, step_count, direction, level_nodes, tasks,
                    semaphore, cacheVars, now, returned, reported_missing, random,
                    first, wsp >>

\* Time passes where the generator is suspended: at a yield, waiting for the
\* consumer, and at the await of the gather.  Between the end of the merge and
\* the checks at the top of the loop the code does not suspend.
Tick ==
    /\ pc \in {"start", "gather"}
    /\ now < MaxNow
    /\ now' = now + 1
    /\ UNCHANGED << searchVars, pc, tasks, semaphore, orphans, cacheVars, events,
                    returned, reported_missing, disk, random, first, wsp, ndjson >>

-----------------------------------------------------------------------------
(* Specification *)

TaskIds == 1..BATCH_SIZE
SubIds == 1..((MAX_CANDIDATES_TO_CHECK + CATEGORY_BATCH_SIZE - 1) \div CATEGORY_BATCH_SIZE)

\* every step the program itself takes
ProgramNext ==
    \/ Start
    \/ NotFound
    \/ TimedOut
    \/ NodeLimit
    \/ BeginIteration
    \/ MergeResults
    \/ \E i \in TaskIds : TaskAcquire(i)
    \/ \E i \in TaskIds : \E outcome \in {"ok", "malformed", "raise"} : PageResponse(i, outcome)
    \/ \E i \in TaskIds : \E outcome \in {"ok", "malformed", "raise"} : BacklinkResponse(i, outcome)
    \/ OrphanResponse
    \/ \E i \in TaskIds : \E j \in SubIds : SubAcquire(i, j)
    \/ \E i \in TaskIds : \E j \in SubIds :
          \E outcome \in {"ok", "status", "raise"} : SubResponse(i, j, outcome)
    \/ \E i \in TaskIds : TaskJoin(i)

Next == ProgramNext \/ Tick

Spec == Init /\ [][Next]_vars

-----------------------------------------------------------------------------
(* The search is run a second time from the same caches, with the generator
   seeded as before and the API answering as before *)

\* random.seed(seed) before the search; the first search keeps what it was
\* started from
InitTwice ==
    /\ InitProgram
    /\ \E seed \in 0..MaxSeed : random = Seeded(seed)
    /\ first = [run |-> 1, mirrored |-> FALSE, start |-> start_page, end |-> end_page,
                caches |-> [f \in CacheFiles |-> MemoryCache(f)], events |-> <<>>]
    /\ wsp = NoRun
    /\ ndjson = <<>>

\* The first search is over. A fresh process loads the caches the first one
\* loaded, seeds the generator as the first one did and searches again: the
\* same pair, or the pair the other way round.
RunAgain ==
    /\ pc = "done"
    /\ first.run = 1
    /\ \E mirror \in BOOLEAN :
          /\ first' = [first EXCEPT !.run = 2, !.mirrored = mirror, !.events = events]
          /\ start_page' = IF mirror THEN first.end ELSE first.start
          /\ end_page' = IF mirror THEN first.start ELSE first.end
    /\ queue_f' = <<start_page'>>
    /\ parent_f' = (start_page' :> None)
    /\ queue_b' = <<end_page'>>
    /\ parent_b' = (end_page' :> None)
    /\ step_count' = 0
    /\ pc' = "start"
    /\ direction' = ""
    /\ level_nodes' = <<>>
    /\ tasks' = <<>>
    /\ semaphore' = CONCURRENT_REQUESTS
    /\ orphans' = 0
    /\ page_cache' = first.caches["page"]
    /\ category_cache' = first.caches["category"]
    /\ backlink_cache' = first.caches["backlink"]
    /\ disk' = [f \in CacheFiles |-> File(first.caches[f])]
    /\ events' = <<>>
    /\ now' = 0
    /\ returned' = {}
    /\ reported_missing' = {}
    /\ random' = [random EXCEPT !.drawn = 0]
    /\ ndjson' = <<>>
    /\ UNCHANGED wsp

\* both searches with every request answered, and answered the same way; no
\* time passes, and the pairs searched stay below the node limit
NextTwice ==
    \/ Start
    \/ NotFound
    \/ BeginIteration
    \/ MergeResults
    \/ \E i \in TaskIds : TaskAcquire(i)
    \/ \E i \in TaskIds : PageResponse(i, "ok")
    \/ \E i \in TaskIds : BacklinkResponse(i, "ok")
    \/ \E i \in TaskIds : \E j \in SubIds : SubAcquire(i, j)
    \/ \E i \in TaskIds : \E j \in SubIds : SubResponseFrom(i, j, "ok", TRUE)
    \/ \E i \in TaskIds : TaskJoin(i)
    \/ RunAgain

SpecTwice == InitTwice /\ [][NextTwice]_vars

-----------------------------------------------------------------------------
(* The process is killed while save_cache runs, and is started again *)

\* save_cache is the next thing the search does: at a terminal exit of the
\* loop (bfs.py:338, 348, 427) or when the merge ends the search
\* (bfs.py:414, 420)
SaveCacheDue ==
    \/ /\ pc = "loop"
       /\ \/ queue_f = <<>>
          \/ queue_b = <<>>
          \/ now > TIMEOUT_SECONDS
          \/ total_visited > MAX_NODES_VISITED
    \/ /\ pc = "gather"
       /\ \A i \in 1..Len(tasks) : tasks[i].pc = "done"
       /\ LevelMerge.meeting # None \/ step_count > MAX_STEP_COUNT

\* The files a kill leaves behind when it comes while file number k is open:
\* open(cache_file, 'w') has truncated it and json.dump has written none or
\* a part of the text (bfs.py:201-203); the files before it are written, the
\* files after it are as they were.
FilesAfterCrash(k) ==
    [f \in CacheFiles |->
        LET n == CHOOSE n \in 1..Len(CacheFileOrder) : CacheFileOrder[n] = f
        IN  IF n < k THEN File(MemoryCache(f))
            ELSE IF n = k THEN TornFile
            ELSE disk[f]]

CrashInSave ==
    /\ SaveCacheDue
    /\ \E k \in 1..Len(CacheFileOrder) : disk' = FilesAfterCrash(k)
    /\ pc' = "crashed"
    /\ UNCHANGED << searchVars, tasks, semaphore, orphans, cacheVars, events, now,
                    returned, reported_missing, random, first, wsp, ndjson >>

\* load_cache at the next import of the module (bfs.py:170-191, 209): a file
\* that does not parse is logged and its cache stays empty
LoadedFrom(file) == IF file.ok THEN file.data ELSE EmptyMap

LoadCache ==
    /\ pc = "crashed"
    /\ page_cache' = LoadedFrom(disk["page"])
    /\ category_cache' = LoadedFrom(disk["category"])
    /\ backlink_cache' = LoadedFrom(disk["backlink"])
    /\ pc' = "loaded"
    /\ UNCHANGED << searchVars, tasks, semaphore, orphans, events, now, returned,
                    reported_missing, disk, random, first, wsp, ndjson >>

NextCrash == Next \/ CrashInSave \/ LoadCache

SpecCrash == Init /\ [][NextCrash]_vars

-----------------------------------------------------------------------------
(* wiki_shortest_path.py: bidirectional_bfs on a link graph.  get_links and *)
(* get_backlinks answer from the graph; the engine of bfs.py stays as it    *)
(* was constructed.                                                         *)

\* the pages of the link graphs
Src == <<"s">>
Dst == <<"t">>
PgU == <<"u">>
PgX == <<"x">>
PgW == <<"w">>
PgP == <<"p">>
PgQ == <<"q">>
PgV == <<"v">>
PgY == <<"y">>

\* the links a graph can hold; every subset of them is a link graph
AllLinks ==
    { <<Src, PgU>>, <<Src, PgX>>, <<Src, PgW>>, <<PgU, PgV>>, <<PgX, PgQ>>,
      <<PgV, PgP>>, <<PgY, PgP>>, <<PgP, Dst>>, <<PgQ, Dst>> }

LinkGraphs == SUBSET AllLinks

\* get_links: the set of the titles the page links to
get_links(links, title) == { l[2] : l \in { x \in links : x[1] = title } }

\* get_backlinks: the set of the titles that link to the page
get_backlinks(links, title) == { l[1] : l \in { x \in links : x[2] = title } }

\* the orders the for loop can go through a set in
IterationOrders(set) ==
    { order \in [1..Cardinality(set) -> set] :
         \A i, j \in 1..Cardinality(set) : i # j => order[i] # order[j] }

\* the while loops of reconstruct_path
RECURSIVE VisitedChain(_, _)
VisitedChain(curr, visited) ==
    IF curr = None THEN <<>>
    ELSE <<curr>> \o VisitedChain(visited[curr], visited)

reconstruct_path(visited_start, visited_end, meeting_point) ==
    Reverse(VisitedChain(meeting_point, visited_start))
        \o VisitedChain(visited_end[meeting_point], visited_end)

\* the loop  for neighbor in neighbors  of either direction
RECURSIVE VisitNeighbors(_, _, _, _, _)
VisitNeighbors(neighbors, current_node, visited_own, queue_own, visited_other) ==
    IF neighbors = <<>>
    THEN [visited |-> visited_own, queue |-> queue_own, meeting |-> None]
    ELSE LET neighbor == neighbors[1]
         IN  IF neighbor \in DOMAIN visited_other
             THEN [visited |-> (neighbor :> current_node) @@ visited_own,
                   queue |-> queue_own, meeting |-> neighbor]
             ELSE IF neighbor \notin DOMAIN visited_own
                  THEN VisitNeighbors(Tail(neighbors), current_node,
                                      (neighbor :> current_node) @@ visited_own,
                                      Append(queue_own, neighbor), visited_other)
                  ELSE VisitNeighbors(Tail(neighbors), current_node, visited_own,
                                      queue_own, visited_other)

engineVars ==
    << start_page, end_page, queue_f, queue_b, parent_f, parent_b, step_count, pc,
       direction, level_nodes, tasks, semaphore, orphans, page_cache, category_cache,
       backlink_cache, events, now, returned, reported_missing, disk, random, first,
       ndjson >>

\* bidirectional_bfs(start_page, end_page) is called on some link graph
InitShortestPath ==
    /\ InitProgram
    /\ start_page = Ann /\ end_page = Dee
    /\ page_cache = EmptyMap
    /\ random = Unseeded
    /\ first = NoFirstRun
    /\ ndjson = <<>>
    /\ \E links \in LinkGraphs : \E target \in {Dst, Src} :
          wsp = [NoRun EXCEPT !.pc = "called", !.links = links,
                              !.start_page = Src, !.end_page = target]

\* if start_page == end_page: return [start_page]
ReturnSamePage ==
    /\ wsp.pc = "called"
    /\ wsp.start_page = wsp.end_page
    /\ wsp' = [wsp EXCEPT !.pc = "returned path", !.result = <<wsp.start_page>>]
    /\ UNCHANGED engineVars

\* the queues and the visited maps before the loop
EnterLoop ==
    /\ wsp.pc = "called"
    /\ wsp.start_page # wsp.end_page
    /\ wsp' = [wsp EXCEPT !.pc = "loop",
                          !.queue_start = <<wsp.start_page>>,
                          !.queue_end = <<wsp.end_page>>,
                          !.visited_start = (wsp.start_page :> None),
                          !.visited_end = (wsp.end_page :> None)]
    /\ UNCHANGED engineVars

\* one turn of the loop on the start side
ExpandStart ==
    /\ wsp.pc = "loop"
    /\ wsp.queue_start # <<>> /\ wsp.queue_end # <<>>
    /\ Len(wsp.queue_start) <= Len(wsp.queue_end)
    /\ LET current_node == Head(wsp.queue_start)
       IN  \E neighbors \in IterationOrders(get_links(wsp.links, current_node)) :
              LET v == VisitNeighbors(neighbors, current_node, wsp.visited_start,
                                      Tail(wsp.queue_start), wsp.visited_end)
              IN  wsp' = IF v.meeting # None
                         THEN [wsp EXCEPT !.pc = "returned path",
                                          !.queue_start = v.queue,
                                          !.visited_start = v.visited,
                                          !.result = reconstruct_path(v.visited,
                                                         wsp.visited_end, v.meeting)]
                         ELSE [wsp EXCEPT !.queue_start = v.queue,
                                          !.visited_start = v.visited]
    /\ UNCHANGED engineVars

\* one turn of the loop on the end side
ExpandEnd ==
    /\ wsp.pc = "loop"
    /\ wsp.queue_start # <<>> /\ wsp.queue_end # <<>>
    /\ Len(wsp.queue_start) > Len(wsp.queue_end)
    /\ LET current_node == Head(wsp.queue_end)
       IN  \E neighbors \in IterationOrders(get_backlinks(wsp.links, current_node)) :
              LET v == VisitNeighbors(neighbors, current_node, wsp.visited_end,
                                      Tail(wsp.queue_end), wsp.visited_start)
              IN  wsp' = IF v.meeting # None
                         THEN [wsp EXCEPT !.pc = "returned path",
                                          !.queue_end = v.queue,
                                          !.visited_end = v.visited,
                                          !.result = reconstruct_path(wsp.visited_start,
                                                         v.visited, v.meeting)]
                         ELSE [wsp EXCEPT !.queue_end = v.queue,
                                          !.visited_end = v.visited]
    /\ UNCHANGED engineVars

\* the loop ends with a queue empty: return None
ReturnNone ==
    /\ wsp.pc = "loop"
    /\ wsp.queue_start = <<>> \/ wsp.queue_end = <<>>
    /\ wsp' = [wsp EXCEPT !.pc = "returned None"]
    /\ UNCHANGED engineVars

NextShortestPath ==
    \/ ReturnSamePage
    \/ EnterLoop
    \/ ExpandStart
    \/ ExpandEnd
    \/ ReturnNone

SpecShortestPath == InitShortestPath /\ [][NextShortestPath]_vars

-----------------------------------------------------------------------------
(* Properties *)

Finished == pc = "done" /\ Last(events).status = "finished"
FinishedPath == Last(events).path

TerminalCount ==
    Cardinality({k \in 1..Len(events) : events[k].status \in TerminalStatuses})

\* every permit is held by a _process_node task whose check_batch tasks wait
\* for a permit
PermitsExhaustedByWaiters ==
    /\ pc = "gather"
    /\ semaphore = 0
    /\ \A i \in 1..Len(tasks) : tasks[i].pc \in {"classify", "done"}
    /\ \E i \in 1..Len(tasks) : tasks[i].pc = "classify"
    /\ \A i \in 1..Len(tasks) : tasks[i].pc = "classify" =>
          \A j \in 1..Len(tasks[i].subs) : tasks[i].subs[j].pc = "wait"

\* C1: a run of find_shortest_path always goes on to a terminal event: in
\* every reachable state either the terminal event has been emitted or the
\* search has a step it can take (no state is stuck short of a terminal
\* event).
C1_SearchNeverStuck == pc = "done" \/ ENABLED ProgramNext

\* C2: the event stream holds exactly one terminal event, it is the last
\* event, and nothing happens after it: never more than one terminal event;
\* once there is one it is the last event and the search takes no further
\* step; and a search that takes no further step has emitted one.
C2_ExactlyOneTerminalEvent ==
    /\ TerminalCount <= 1
    /\ TerminalCount = 1 =>
          /\ Last(events).status \in TerminalStatuses
          /\ pc = "done"
          /\ ~ENABLED ProgramNext
    /\ ~ENABLED ProgramNext => TerminalCount = 1

\* the part of C2 that is about the events emitted, without the promise
\* that one is emitted
AtMostOneTerminalAndLast ==
    /\ TerminalCount <= 1
    /\ TerminalCount = 1 =>
          /\ Last(events).status \in TerminalStatuses
          /\ pc = "done"
          /\ ~ENABLED ProgramNext

\* C3: a hard deadline is enforced independently of the main loop: when the
\* deadline passes inside an iteration (time only passes at the gather once
\* the loop runs), the stream ends with an error event, never with finished
\* or not_found.
C3_DeadlineEndsInError ==
    (pc = "done" /\ now > TIMEOUT_SECONDS) => Last(events).status = "error"

IsDistinct(s) == \A i, j \in 1..Len(s) : i # j => s[i] # s[j]

\* C4: a finished path starts at start, ends at end and repeats no title,
\* for every start and end, start = end included.
C4_PathEndpointsAndDistinct ==
    Finished =>
        /\ FinishedPath # <<>>
        /\ FinishedPath[1] = start_page
        /\ Last(FinishedPath) = end_page
        /\ IsDistinct(FinishedPath)

\* C4 with the endpoints different
PathDistinctWhenEndpointsDiffer ==
    (Finished /\ start_page # end_page) =>
        /\ FinishedPath[1] = start_page
        /\ Last(FinishedPath) = end_page
        /\ IsDistinct(FinishedPath)

\* b is in the link list fetched for a, or a in the backlink list fetched for
\* b (every list fetched is kept in its cache)
EdgeObserved(a, b) ==
    \/ a \in DOMAIN page_cache /\ b \in Range(page_cache[a][2])
    \/ b \in DOMAIN backlink_cache /\ a \in Range(backlink_cache[b])

\* C5: every consecutive pair of a finished path is an edge seen during the
\* search: a fetched outgoing link or a fetched backlink.
C5_PathEdgesObserved ==
    Finished =>
        \A i \in 1..(Len(FinishedPath) - 1) :
            EdgeObserved(FinishedPath[i], FinishedPath[i + 1])

Roots == {start_page, end_page}

\* C6: every key of parent_f or parent_b other than the two roots was in the
\* list the classifier returned for the node recorded as its parent; the
\* roots are in their maps from the start with no parent; and so every
\* interior title of a finished path was returned by the classifier.
C6_ParentsWereClassified ==
    /\ \A k \in DOMAIN parent_f \ Roots : <<"forward", parent_f[k], k>> \in returned
    /\ \A k \in DOMAIN parent_b \ Roots : <<"backward", parent_b[k], k>> \in returned
    /\ start_page \in DOMAIN parent_f /\ parent_f[start_page] = None
    /\ end_page \in DOMAIN parent_b /\ parent_b[end_page] = None
    /\ Finished =>
          \A i \in 2..(Len(FinishedPath) - 1) :
              \E r \in returned : r[3] = FinishedPath[i]

\* both parent maps hold classified titles and a finished path has an
\* interior title
C6_Witness ==
    /\ Finished
    /\ Len(FinishedPath) >= 3
    /\ DOMAIN parent_f \ Roots # {}
    /\ DOMAIN parent_b \ Roots # {}

\* C7: no key of parent_f or parent_b is a title the heuristic filter
\* rejects.
C7_NoRejectedTitleInParentMaps ==
    \A k \in DOMAIN parent_f \cup DOMAIN parent_b : HeuristicKeeps(k)

\* C8: once a title has a verdict in the category cache no later step
\* changes that verdict.
C8_CacheVerdictsNeverFlip ==
    [][\A t \in DOMAIN category_cache :
          t \in DOMAIN category_cache' /\ category_cache'[t] = category_cache[t]]_vars

\* C9: every title the classifier returns is a title of its input batch.
C9_ClassifierReturnsSubsetOfInput ==
    \A i \in 1..Len(tasks) :
        tasks[i].pc = "done" => Range(tasks[i].humans) \subseteq Range(tasks[i].to_check)

\* the requests of the running tasks that have been sent and not answered
Outstanding ==
    LET TaskRequests(task) ==
            task.reqs + Cardinality({j \in 1..Len(task.subs) : task.subs[j].pc = "req"})
        RECURSIVE Sum(_)
        Sum(k) == IF k = 0 THEN 0 ELSE TaskRequests(tasks[k]) + Sum(k - 1)
    IN  Sum(Len(tasks)) + orphans

\* the requests on the wire: the connection pool of the client lets at most
\* max_connections of the outstanding requests through (bfs.py:320-325)
InFlight == Min(Outstanding, max_connections)

\* C10: at every moment at most CONCURRENT_REQUESTS requests are in flight.
C10_InFlightWithinPermits == InFlight <= CONCURRENT_REQUESTS

\* C11: when a level has as many nodes as the semaphore has permits, its
\* node-processor tasks still all complete: in no reachable state is every
\* permit held by a node-processor task that waits for a permit for its own
\* category query.
C11_NoPermitHeldByWaiter == ~PermitsExhaustedByWaiters

\* every category request of the classifier call of the task raised
AllBatchesRaised(task) ==
    /\ task.pc = "done"
    /\ task.subs # <<>>
    /\ \A j \in 1..Len(task.subs) : task.subs[j].outcome = "raise"

\* C12: when the category requests of a classifier call raise or time out,
\* the classifier returns the VIP titles of its batch followed by the first
\* k >= 1 of the other titles, so the result of a non-empty batch is not
\* empty.
C12_FallbackOnApiFailure ==
    \A i \in 1..Len(tasks) :
        AllBatchesRaised(tasks[i]) =>
            /\ tasks[i].humans # <<>>
            /\ \E k \in 1..MAX_CANDIDATES_TO_CHECK :
                  tasks[i].humans = VipHumans(tasks[i].to_check)
                                    \o Take(RemainingTitles(tasks[i].to_check), k)

\* C13: a search whose start equals its end ends with a finished event whose
\* path is the one-element list [start].
C13_SameEndpointsSingletonPath ==
    (pc = "done" /\ start_page = end_page) =>
        /\ Last(events).status = "finished"
        /\ Last(events).path = <<start_page>>

\* the API answers with an empty link list and an empty backlink list for t
NoLinksNoBacklinks(t) == ApiLinks(t) = <<>> /\ ApiBacklinks(t) = <<>>

\* C14: when one of the two endpoints has neither links nor backlinks in the
\* API's data, the search ends with not_found and never with finished.
C14_IsolatedEndpointNotFound ==
    (pc = "done" /\ (NoLinksNoBacklinks(start_page) \/ NoLinksNoBacklinks(end_page))) =>
        Last(events).status = "not_found"

\* the part of C14 that excludes a finished event
IsolatedEndpointNeverFinished ==
    (pc = "done" /\ (NoLinksNoBacklinks(start_page) \/ NoLinksNoBacklinks(end_page))) =>
        Last(events).status # "finished"

\* C15: a title the category API has reported missing has the verdict false
\* in the category cache from then on, and no classifier call that returns
\* in that step or later returns it.
C15_MissingNeverAdmitted ==
    [][/\ \A t \in reported_missing' :
             t \in DOMAIN category_cache' /\ category_cache'[t] = FALSE
       /\ \A r \in returned' \ returned : r[3] \notin reported_missing']_vars

\* the verdict false is written when the page is reported missing
MissingCachedFalseWhenReported ==
    [][\A t \in reported_missing' \ reported_missing :
           t \in DOMAIN category_cache' /\ category_cache'[t] = FALSE]_vars

\* C16: every VIP title of the classifier's input is in its result, whatever
\* the cache holds and however the API answers, and no category request of
\* the classifier asks about a VIP title.
C16_VipAdmittedAndNeverQueried ==
    \A i \in 1..Len(tasks) :
        /\ tasks[i].pc = "done" =>
              \A t \in Range(tasks[i].to_check) :
                  t \in VIP_ALLOWLIST => t \in Range(tasks[i].humans)
        /\ \A j \in 1..Len(tasks[i].subs) :
              \A t \in Range(tasks[i].subs[j].batch) : t \notin VIP_ALLOWLIST

\* a classifier call with a VIP title in its input has returned after a
\* category request of its own raised, with a cache that holds the verdict
\* false for the VIP title
C16_Witness ==
    \E i \in 1..Len(tasks) :
        /\ tasks[i].pc = "done"
        /\ Plato \in Range(tasks[i].to_check)
        /\ Plato \in DOMAIN category_cache /\ category_cache[Plato] = FALSE
        /\ \E j \in 1..Len(tasks[i].subs) : tasks[i].subs[j].outcome = "raise"

\* str.isdigit: a non-empty title of digits only
AllDigits(title) == title # <<>> /\ \A k \in 1..Len(title) : IsDigit(title[k])

\* C20: whatever the candidate list, the output of the heuristic filter
\* holds no title that consists of digits only and no title that starts with
\* "List of".
C20_FilterRejectsDigitsAndLists ==
    \A i \in 1..Len(tasks) :
        \A t \in Range(_heuristic_filter(tasks[i].candidates)) \cup Range(tasks[i].filtered) :
            ~AllDigits(t) /\ ~StartsWith(t, ListOfPrefix)

\* the filter has run on a list with a title of digits, a "List of" title and
\* titles it keeps
C20_Witness ==
    \E i \in 1..Len(tasks) :
        /\ \E t \in Range(tasks[i].candidates) : AllDigits(t)
        /\ \E t \in Range(tasks[i].candidates) : StartsWith(t, ListOfPrefix)
        /\ Len(tasks[i].filtered) >= 2

\* C19: when the process is killed during save_cache, every cache file is
\* afterwards either what it was before or the complete new content, and
\* load_cache at the next start reads every file and so keeps every entry
\* that was on disk.
C19_CrashLeavesWholeFiles ==
    [][/\ pc' = "crashed" =>
             \A f \in CacheFiles : disk'[f] \in {disk[f], File(MemoryCache(f))}
       /\ pc' = "loaded" =>
             \A f \in CacheFiles : disk[f].ok /\ MemoryCache(f)' = disk[f].data]_vars

\* the first of the two searches ended in finished
FirstFinished == first.events # <<>> /\ Last(first.events).status = "finished"

\* C17: when the search for (A, B) ended in finished with a path of length n,
\* the search for (B, A), started from the same caches against the same API
\* data, ends in finished with a path of length n
C17_MirroredSearchSameLength ==
    (first.run = 2 /\ first.mirrored /\ pc = "done" /\ FirstFinished)
        => (Finished /\ Len(FinishedPath) = Len(Last(first.events).path))

\* C18: a second search for the same pair, given the same API answers, the
\* same initial caches and the same seed, yields the events the first one
\* yielded, whatever the order in which the tasks of a level complete
C18_SameInputsSameEvents ==
    (first.run = 2 /\ ~first.mirrored /\ pc = "done") => events = first.events

\* how often title t stands in sequence s
Count(s, t) == Cardinality({k \in 1..Len(s) : s[k] = t})

\* the step appends an event of the given status
Emits(status) ==
    /\ Len(events') = Len(events) + 1
    /\ Last(events').status = status

\* C30: a not_found event is emitted only when both queues are empty, never
\* while one of them still holds titles that were not expanded
C30_NotFoundOnlyWhenBothQueuesEmpty ==
    [][Emits("not_found") => (queue_f = <<>> /\ queue_b = <<>>)]_vars

\* every title in a queue is a key of that direction's parent map
QueuedTitlesHaveParents ==
    /\ Range(queue_f) \subseteq DOMAIN parent_f
    /\ Range(queue_b) \subseteq DOMAIN parent_b

\* a step of one direction: what it appends to the queue is new to the parent
\* map and appended once, and no recorded parent changes
InsertedOnce(queue, parent_map, queue_after, parent_after) ==
    /\ \A t \in Range(queue_after) :
          Count(queue_after, t) > Count(queue, t)
              => /\ t \notin DOMAIN parent_map
                 /\ t \in DOMAIN parent_after
                 /\ Count(queue_after, t) = 1
    /\ \A t \in DOMAIN parent_map :
          t \in DOMAIN parent_after /\ parent_after[t] = parent_map[t]

\* C26: in each direction every queued title is a key of the parent map, a
\* title is appended to the queue at most once in a search, and a recorded
\* parent is never overwritten
C26_QueueAndParentsInsertOnce ==
    /\ []QueuedTitlesHaveParents
    /\ [][/\ InsertedOnce(queue_f, parent_f, queue_f', parent_f')
          /\ InsertedOnce(queue_b, parent_b, queue_b', parent_b')]_vars

\* a level has been merged whose results named the same child twice: the
\* child is a key and stands in the queue once
C26_Witness ==
    /\ pc = "loop"
    /\ \E i \in 1..Len(tasks) :
          \E k \in 1..Len(tasks[i].children) :
             LET child == tasks[i].children[k]
             IN  /\ Count(tasks[i].children, child) > 1
                 /\ child \in DOMAIN (IF direction = "forward" THEN parent_f ELSE parent_b)
                 /\ Count(IF direction = "forward" THEN queue_f ELSE queue_b, child) = 1

\* the titles met when following parents from t, at most n steps
RECURSIVE Ancestors(_, _, _)
Ancestors(parent_map, t, n) ==
    IF t = None \/ n = 0 \/ t \notin DOMAIN parent_map THEN <<>>
    ELSE <<t>> \o Ancestors(parent_map, parent_map[t], n - 1)

\* parent_map is a tree with the given root
TreeRootedAt(parent_map, root) ==
    /\ root \in DOMAIN parent_map
    /\ parent_map[root] = None
    /\ \A t \in DOMAIN parent_map \ {root} : parent_map[t] \in DOMAIN parent_map
    /\ \A t \in DOMAIN parent_map :
          LET walk == Ancestors(parent_map, t, Cardinality(DOMAIN parent_map))
          IN  /\ walk[Len(walk)] = root
              /\ IsDistinct(walk)

\* C27: each parent map is a tree rooted at its direction's endpoint: the
\* root maps to none, every other key maps to a key, and the walk along the
\* parents from any key ends at the root without visiting a title twice
C27_ParentMapsAreTrees ==
    /\ TreeRootedAt(parent_f, start_page)
    /\ TreeRootedAt(parent_b, end_page)

\* both parent maps hold a chain of three titles
C27_Witness ==
    /\ \E t \in DOMAIN parent_f :
          parent_f[t] # None /\ parent_f[t] # start_page
    /\ \E t \in DOMAIN parent_b : parent_b[t] # None
    /\ pc = "done"

C25_PathThroughFirstMeetingChild ==
    [][Emits("finished") =>
          LET forward == direction = "forward"
              own == IF forward THEN parent_f ELSE parent_b
              other == IF forward THEN parent_b ELSE parent_f
              own_after == IF forward THEN parent_f' ELSE parent_b'
              pairs == MergePairs(tasks)
              path == Last(events').path
              size == Cardinality(DOMAIN parent_f') + Cardinality(DOMAIN parent_b')
          IN  \E k \in 1..Len(pairs) :
                 LET m == pairs[k][2]
                 IN  /\ m \notin DOMAIN own
                     /\ m \in DOMAIN other
                     /\ \A j \in 1..(k - 1) :
                           /\ pairs[j][2] # m
                           /\ pairs[j][2] \in DOMAIN other => pairs[j][2] \in DOMAIN own
                     /\ DOMAIN own_after = DOMAIN own \cup {pairs[j][2] : j \in 1..k}
                     /\ path = Reverse(Ancestors(parent_f', m, size))
                                  \o Ancestors(parent_b', parent_b'[m], size)
                     /\ Count(path, m) = 1]_vars

\* a search finished on a child that has a parent in both maps, and a child
\* later in the merge order was left out of the parent map
C25_Witness ==
    /\ Finished
    /\ Len(FinishedPath) >= 4
    /\ \E n \in 2..(Len(FinishedPath) - 1) :
          /\ FinishedPath[n] \in DOMAIN parent_f
          /\ FinishedPath[n] \in DOMAIN parent_b
    /\ \E i \in 1..Len(tasks) :
          \E k \in 1..Len(tasks[i].children) :
             tasks[i].children[k] \notin
                 DOMAIN (IF direction = "forward" THEN parent_f ELSE parent_b)

\* the positions of the events of one status
EventsOf(status) == {k \in 1..Len(events) : events[k].status = status}

\* the info event is the first event and the only one of its kind; there are
\* as many exploring events as iterations have dequeued a level, and while a
\* level is being processed the last of them names that level
InfoFirstExploringPerLevel ==
    /\ EventsOf("info") = (IF events = <<>> THEN {} ELSE {1})
    /\ Cardinality(EventsOf("exploring")) = step_count
    /\ pc = "gather" =>
          LET last == events[Len(events)]
          IN  /\ last.status = "exploring"
              /\ last.nodes = level_nodes
              /\ last.direction = direction

\* the step in which an iteration dequeues its level: it yields the
\* exploring event for that level, and it neither writes a parent map or a
\* cache nor takes a permit nor sends a request
DequeueYieldsExploring ==
    /\ step_count' # step_count <=> Emits("exploring")
    /\ Emits("exploring") =>
          /\ step_count' = step_count + 1
          /\ level_nodes' # <<>>
          /\ Last(events').nodes = level_nodes'
          /\ Len(queue_f') + Len(queue_b') + Len(level_nodes')
                = Len(queue_f) + Len(queue_b)
          /\ \A i \in 1..Len(tasks') : tasks'[i].pc = "wait"
          /\ UNCHANGED << parent_f, parent_b, cacheVars, semaphore, orphans >>

\* C22: the info event occurs at most once and before every other event;
\* every iteration that dequeues a level yields exactly one exploring event,
\* after the dequeue and before a fetch or a parent-map change of that
\* iteration
C22_InfoOnceExploringPerIteration ==
    /\ []InfoFirstExploringPerLevel
    /\ [][DequeueYieldsExploring]_vars

\* the third level is being processed: three exploring events after the one
\* info event, a request of the level is out and the earlier levels have
\* written both parent maps
C22_Witness ==
    /\ pc = "gather"
    /\ step_count = 3
    /\ Cardinality(EventsOf("exploring")) = 3
    /\ \E i \in 1..Len(tasks) : tasks[i].pc = "fetch"
    /\ Cardinality(DOMAIN parent_f) > 1
    /\ Cardinality(DOMAIN parent_b) > 1

\* one of the three budgets is exceeded
BudgetBreached ==
    \/ now > TIMEOUT_SECONDS
    \/ Cardinality(DOMAIN parent_f) + Cardinality(DOMAIN parent_b) > MAX_NODES_VISITED
    \/ step_count > MAX_STEP_COUNT

\* a category request of the level in hand has failed
SomeCategoryRequestFailed ==
    \E i \in 1..Len(tasks) :
        \E j \in 1..Len(tasks[i].subs) : tasks[i].subs[j].outcome \in {"raise", "status"}

\* C23: an error event is emitted only when the time, the visited count or
\* the step count is over its budget; the step that handles a response to a
\* page, backlink or category request, failed or not, emits no event
C23_ErrorOnlyOnBudgetBreach ==
    [][/\ Emits("error") => BudgetBreached
       /\ (tasks' # tasks /\ step_count' = step_count) => events' = events]_vars

\* a search ended with an error event after a category request had failed
C23_Witness ==
    /\ pc = "done"
    /\ Last(events).status = "error"
    /\ SomeCategoryRequestFailed

\* a search with a failed category request ended with finished
FinishedDespiteFailedRequest ==
    /\ Finished
    /\ SomeCategoryRequestFailed

\* the search is at the top of the loop body
AtIterationStart == pc = "loop" /\ queue_f # <<>> /\ queue_b # <<>>

\* a budget is used up as the claim counts it: the time has reached the
\* timeout, or the visited total or the step counter is over its maximum
BudgetReached ==
    \/ now >= TIMEOUT_SECONDS
    \/ Cardinality(DOMAIN parent_f) + Cardinality(DOMAIN parent_b) > MAX_NODES_VISITED
    \/ step_count > MAX_STEP_COUNT

\* the step dequeues nothing, sends nothing and writes no parent map
NothingProcessed ==
    UNCHANGED << queue_f, queue_b, parent_f, parent_b, level_nodes, tasks, semaphore >>

\* an error event comes from the top of the loop body only, with nothing
\* processed in between
ErrorOnlyAtIterationStart ==
    [][Emits("error") => (AtIterationStart /\ NothingProcessed)]_vars

\* C29: the budgets are checked at the start of every iteration before
\* anything else: when one is used up there, the search emits an error event
\* and ends without dequeuing, emitting an exploring event, sending a
\* request or writing a parent map; and an error event comes from there only
C29_BudgetsCheckedBeforeAnythingElse ==
    [][/\ (AtIterationStart /\ BudgetReached) => (Emits("error") /\ NothingProcessed)
       /\ Emits("error") => (AtIterationStart /\ NothingProcessed)]_vars

\* the candidates of test_heuristic_filter that it expects to be kept, and
\* those it expects to be excluded, as far as the link lists hold them
ExpectedKept == {TaylorSwift, HenryKissinger}
ExpectedExcluded == {Album1989, HoChiMinhCity, VietnamWar}

\* C21: the heuristic filter keeps every plain personal name and removes
\* every title of a non-person article of the kinds the test lists (album,
\* city, war, ...)
C21_FilterKeepsNamesDropsNonPersons ==
    \A i \in 1..Len(tasks) :
        LET kept == Range(_heuristic_filter(tasks[i].candidates))
        IN  \A title \in Range(tasks[i].candidates) :
               /\ title \in ExpectedKept => title \in kept
               /\ title \in ExpectedExcluded => title \notin kept

\* the pages reached from a page over at most k links
RECURSIVE ReachedWithin(_, _, _)
ReachedWithin(links, from, k) ==
    IF k = 0 THEN {from}
    ELSE LET near == ReachedWithin(links, from, k - 1)
         IN  near \cup { l[2] : l \in { x \in links : x[1] \in near } }

\* the least number of links from one page to another, -1 when there is no
\* directed path
HopDistance(links, from, to) ==
    LET most == Cardinality(links)
    IN  IF to \notin ReachedWithin(links, from, most) THEN -1
        ELSE CHOOSE k \in 0..most :
                /\ to \in ReachedWithin(links, from, k)
                /\ \A j \in 0..(k - 1) : to \notin ReachedWithin(links, from, j)

\* path goes from one page to the other along links of the graph
IsLinkPath(links, path, from, to) ==
    /\ path # <<>>
    /\ path[1] = from
    /\ path[Len(path)] = to
    /\ \A n \in 1..(Len(path) - 1) : << path[n], path[n + 1] >> \in links

\* C24: on every link graph a path returned by bidirectional_bfs is a
\* directed link path from start to end with the least number of hops, and
\* None is returned only when there is no such path
C24_ReturnsAShortestPath ==
    /\ wsp.pc = "returned path" =>
          /\ IsLinkPath(wsp.links, wsp.result, wsp.start_page, wsp.end_page)
          /\ Len(wsp.result) - 1 = HopDistance(wsp.links, wsp.start_page, wsp.end_page)
    /\ wsp.pc = "returned None" =>
          HopDistance(wsp.links, wsp.start_page, wsp.end_page) = -1

\* what is returned is a link path from start to end, and None is returned
\* only when there is none
ReturnsALinkPathIfThereIsOne ==
    /\ wsp.pc = "returned path" =>
          IsLinkPath(wsp.links, wsp.result, wsp.start_page, wsp.end_page)
    /\ wsp.pc = "returned None" =>
          HopDistance(wsp.links, wsp.start_page, wsp.end_page) = -1

\* the step is the merge of a gathered level
MergesLevel == pc = "gather" /\ pc' \in {"loop", "done"}

\* the children lists of the level, node by node in level_nodes order, as
\* (node, child) pairs
RECURSIVE LevelPairs(_)
LevelPairs(n) ==
    IF n = 0 THEN <<>>
    ELSE LET result == tasks[CHOOSE i \in 1..Len(tasks) : tasks[i].node = level_nodes[n]]
         IN  LevelPairs(n - 1) \o [k \in 1..Len(result.children) |->
                                      << level_nodes[n], result.children[k] >>]

\* C31: the parent-map entries, the queue order and the meeting node after a
\* merge are those of the children taken node by node in level_nodes order,
\* whatever the order in which the level's tasks completed
C31_MergeInLevelOrder ==
    [][MergesLevel =>
          LET forward == direction = "forward"
              own == IF forward THEN parent_f ELSE parent_b
              other == IF forward THEN parent_b ELSE parent_f
              queue == IF forward THEN queue_f ELSE queue_b
              own_after == IF forward THEN parent_f' ELSE parent_b'
              queue_after == IF forward THEN queue_f' ELSE queue_b'
              pairs == LevelPairs(Len(level_nodes))
              \* pair k brings a title that is new to the direction
              New(k) == /\ pairs[k][2] \notin DOMAIN own
                        /\ \A j \in 1..(k - 1) : pairs[j][2] # pairs[k][2]
              meetings == {k \in 1..Len(pairs) : New(k) /\ pairs[k][2] \in DOMAIN other}
              stop == IF meetings = {} THEN Len(pairs)
                      ELSE CHOOSE k \in meetings : \A j \in meetings : k <= j
              inserted == SelectSeq([k \in 1..stop |-> k], LAMBDA k : New(k))
          IN  /\ DOMAIN own_after = DOMAIN own \cup {pairs[k][2] : k \in Range(inserted)}
              /\ \A k \in Range(inserted) : own_after[pairs[k][2]] = pairs[k][1]
              /\ queue_after = queue \o [n \in 1..Len(inserted) |-> pairs[inserted[n]][2]]
              /\ IF meetings = {} THEN ~Emits("finished")
                 ELSE /\ Emits("finished")
                      /\ \E n \in 1..Len(Last(events').path) :
                            /\ Last(events').path[n] = pairs[stop][2]
                            /\ n > 1 => Last(events').path[n - 1] = parent_f'[pairs[stop][2]]]_vars

\* a level of two nodes has been merged whose second task returned first;
\* both brought a child, and the queue holds them in level_nodes order
C31_Witness ==
    /\ pc \in {"loop", "done"}
    /\ Len(tasks) >= 2
    /\ tasks[1].nfinished > tasks[2].nfinished
    /\ tasks[2].nfinished > 0
    /\ LET queue == IF direction = "forward" THEN queue_f ELSE queue_b
       IN  \E a, b \in 1..Len(queue) :
              /\ a < b
              /\ queue[a] \in Range(tasks[1].children)
              /\ queue[b] \in Range(tasks[2].children)
              /\ queue[b] \notin Range(tasks[1].children)

\* an exception was raised while the node of the task was processed: in its
\* fetch or in one of the category requests of its classification
RaisedWhileProcessed(task) ==
    \/ task.fetch = "raise"
    \/ \E j \in 1..Len(task.subs) : task.subs[j].outcome = "raise"

\* the titles the merge step adds to the direction's parent map with the
\* given node as parent
AddedUnder(node) ==
    LET forward == direction = "forward"
        own == IF forward THEN parent_f ELSE parent_b
        own_after == IF forward THEN parent_f' ELSE parent_b'
    IN  {t \in DOMAIN own_after \ DOMAIN own : own_after[t] = node}

\* C32: a node whose processing raised an exception adds no entry to a parent
\* map or queue; the children of the other nodes of the level are merged all
\* the same, and the search goes on with the next iteration unless the merge
\* ends it
C32_FailedNodeAddsNothing ==
    [][MergesLevel =>
          /\ \A i \in 1..Len(tasks) :
                RaisedWhileProcessed(tasks[i]) => AddedUnder(tasks[i].node) = {}
          /\ \A i \in 1..Len(tasks) :
                (~RaisedWhileProcessed(tasks[i]) /\ ~Emits("finished"))
                    => Range(tasks[i].children)
                          \subseteq DOMAIN (IF direction = "forward" THEN parent_f'
                                            ELSE parent_b')
          /\ \/ pc' = "loop"
             \/ Emits("finished")
             \/ Emits("error") /\ step_count > MAX_STEP_COUNT]_vars

\* a node whose fetch raised has no candidates and no children
FailedFetchYieldsNoChild ==
    \A i \in 1..Len(tasks) :
        (tasks[i].fetch = "raise" /\ tasks[i].pc = "done")
            => tasks[i].candidates = <<>> /\ tasks[i].children = <<>>

\* the cache _get_page_data or _get_backlinks reads in the running direction,
\* as lists of titles
FetchCache(pages, backlinks) ==
    IF direction = "forward"
    THEN [t \in DOMAIN pages |-> pages[t][2]]
    ELSE backlinks

\* the step in which task i comes back from its fetch the given way
FetchEnds(i, how) ==
    /\ pc = "gather" /\ pc' = "gather"
    /\ i \in 1..Len(tasks)
    /\ tasks[i].fetch = ""
    /\ tasks'[i].fetch = how

\* the step in which the category request j of task i is answered the given way
CategoryRequestEnds(i, j, how) ==
    /\ pc = "gather" /\ pc' = "gather"
    /\ i \in 1..Len(tasks)
    /\ j \in 1..Len(tasks[i].subs)
    /\ tasks[i].subs[j].outcome = ""
    /\ tasks'[i].subs[j].outcome = how

\* a fetch of a cached title returns the cached list, sends no request and
\* changes no cache
FetchHitReadsCache ==
    \A i \in TaskIds :
        FetchEnds(i, "hit") =>
            /\ tasks[i].node \in DOMAIN FetchCache(page_cache, backlink_cache)
            /\ tasks'[i].candidates = FetchCache(page_cache, backlink_cache)[tasks[i].node]
            /\ tasks[i].pc = "wait"
            /\ UNCHANGED cacheVars

\* a fetch that was answered stores what it returns under the title asked for
FetchMissStores ==
    \A i \in TaskIds :
        FetchEnds(i, "ok") =>
            /\ tasks[i].node \in DOMAIN FetchCache(page_cache', backlink_cache')
            /\ FetchCache(page_cache', backlink_cache')[tasks[i].node] = tasks'[i].candidates

\* a title with a verdict is asked about in no category request, and counts
\* as human exactly when its verdict says so
VerdictHitReadsCache ==
    \A i \in TaskIds :
        (FetchEnds(i, "hit") \/ FetchEnds(i, "ok")) =>
            \A t \in Range(tasks'[i].to_check) \cap DOMAIN category_cache :
                /\ \A j \in 1..Len(tasks'[i].subs) : t \notin Range(tasks'[i].subs[j].batch)
                /\ t \notin VIP_ALLOWLIST =>
                      (category_cache[t] <=>
                          t \in Range(tasks'[i].cached_humans) \cup Range(tasks'[i].humans))

\* a category request that was answered leaves a verdict for every title it
\* asked about
VerdictMissStores ==
    \A i \in TaskIds : \A j \in SubIds :
        CategoryRequestEnds(i, j, "ok") =>
            Range(tasks[i].subs[j].batch) \subseteq DOMAIN category_cache'

\* C33: for page data, backlinks and category verdicts, a title with a cache
\* entry is answered from the cache without a request and without a change
\* of a cache, and the answer to a successful request is stored under the
\* title asked for
C33_CacheHitAndMissStore ==
    [][/\ FetchHitReadsCache
       /\ FetchMissStores
       /\ VerdictHitReadsCache
       /\ VerdictMissStores]_vars

\* the same, for page data and backlinks only
FetchCacheHitAndMissStore == [][FetchHitReadsCache /\ FetchMissStores]_vars

\* the same, for the titles that have a verdict
VerdictCacheHit == [][VerdictHitReadsCache]_vars

\* the global deadline has passed
DeadlinePassed == now > TIMEOUT_SECONDS

\* C34: once the deadline has passed, no step inserts a child into a parent
\* map or a queue and no step emits a finished event
C34_NothingMergedAfterDeadline ==
    [][DeadlinePassed =>
          /\ parent_f' = parent_f /\ parent_b' = parent_b
          /\ queue_f' = queue_f /\ queue_b' = queue_b
          /\ ~Emits("finished")]_vars

\* once the deadline has passed no iteration starts
NoIterationAfterDeadline == [][DeadlinePassed => step_count' = step_count]_vars

\* the exception keywords as the claim lists them
ClaimedExceptionKeywords ==
    << <<"a","c","t","i","v","i","s","t">>, <<"t","r","a","i","n","e","r">>, <<"o","w","n","e","r">>,
       <<"e","n","g","i","n","e","e","r">>, <<"d","e","v","e","l","o","p","e","r">>,
       <<"f","o","u","n","d","e","r">>, <<"c","e","o">> >>

\* the rejection as the claim states it: some category, prefix stripped and
\* lower-cased, holds a negative keyword and none of the exception keywords
ClaimedRejection(page) ==
    \E k \in 1..Len(page.categories) :
        LET clean == PageCleanCategories(page)[k]
        IN  /\ ContainsAny(clean, PERSON_NEGATIVE_KEYWORDS)
            /\ ~ContainsAny(clean, ClaimedExceptionKeywords)

\* the positive gate accepts the page
PositiveGate(page) ==
    \E k \in 1..Len(page.categories) : PositiveHit(PageCategories(page)[k])

\* C35: a page that was answered is found not human whenever the rejection
\* applies to it, and otherwise is human exactly when the positive gate
\* accepts it
C35_NegativeGateWithExceptions ==
    \A i \in 1..Len(tasks) :
        \A j \in 1..Len(tasks[i].subs) :
            \A k \in 1..Len(tasks[i].subs[j].pages) :
                LET page == tasks[i].subs[j].pages[k]
                    is_human == page.title \in Range(tasks[i].subs[j].humans)
                IN  ~page.missing =>
                       is_human = (~ClaimedRejection(page) /\ PositiveGate(page))

\* a category that holds a negative keyword and an exception keyword of the
\* code's list never rejects the page
RejectionWithCodeExceptions ==
    \A i \in 1..Len(tasks) :
        \A j \in 1..Len(tasks[i].subs) :
            \A k \in 1..Len(tasks[i].subs[j].pages) :
                LET page == tasks[i].subs[j].pages[k]
                    is_human == page.title \in Range(tasks[i].subs[j].humans)
                    rejected ==
                        \E n \in 1..Len(page.categories) :
                            LET clean == PageCleanCategories(page)[n]
                            IN  /\ ContainsAny(clean, PERSON_NEGATIVE_KEYWORDS)
                                /\ ~ContainsAny(clean, PERSON_EXCEPTION_KEYWORDS)
                IN  ~page.missing => is_human = (~rejected /\ PositiveGate(page))

\* the parenthetical qualifiers the claim counts among the patterns
ClaimedQualifiers ==
    << <<"(","f","i","l","m",")">>, <<"(","b","a","n","d",")">>,
       <<"(","c","o","m","p","a","n","y",")">>, <<"(","s","o","f","t","w","a","r","e",")">>,
       <<"(","v","i","d","e","o"," ","g","a","m","e",")">> >>

\* a title one of the claim's rejection rules applies to
ClaimedRejected(title) ==
    \/ title = <<>>
    \/ title # <<>> /\ IsDigit(title[1])
    \/ StartsWith(title, ListOfPrefix)
    \/ ContainsAny(Lower(title), META_PAGE_PATTERNS \o ClaimedQualifiers)

\* a is b with some of its elements left out
RECURSIVE IsSubsequence(_, _)
IsSubsequence(a, b) ==
    IF a = <<>> THEN TRUE
    ELSE IF b = <<>> THEN FALSE
    ELSE IF a[1] = b[1] THEN IsSubsequence(Tail(a), Tail(b))
    ELSE IsSubsequence(a, Tail(b))

\* C36: the output of the heuristic filter is the input without the titles a
\* rejection rule applies to (empty, leading digit, "List of", a meta
\* pattern or a parenthetical qualifier), in input order; what the task goes
\* on with holds these titles and no other
C36_FilterIsExactlyTheRules ==
    \A i \in 1..Len(tasks) :
        tasks[i].fetch # "" =>
            LET expected == SelectSeq(tasks[i].candidates, LAMBDA t : ~ClaimedRejected(t))
            IN  /\ _heuristic_filter(tasks[i].candidates) = expected
                /\ Range(tasks[i].filtered) = Range(expected)
                /\ Len(tasks[i].filtered) = Len(expected)

\* the output of the filter is a subsequence of its input, and a title is
\* left out only if it starts with a digit or "List of" or holds a pattern
FilterOutputIsSubsequence ==
    \A i \in 1..Len(tasks) :
        LET output == _heuristic_filter(tasks[i].candidates)
        IN  /\ IsSubsequence(output, tasks[i].candidates)
            /\ \A t \in Range(tasks[i].candidates) \ Range(output) : ClaimedRejected(t)

\* the number of terminal records in the stream of the gateway
TerminalRecords ==
    Cardinality({k \in 1..Len(ndjson) : ndjson[k].status \in TerminalStatuses})

\* record k of the stream is finished and lists the nodes of the path in order
DeliversPath(k, path) ==
    /\ ndjson[k].status = "finished"
    /\ "path_with_context" \in DOMAIN ndjson[k]
    /\ [n \in 1..Len(ndjson[k].path_with_context) |->
            ndjson[k].path_with_context[n].node.title] = path

\* C37: the stream of the gateway is the image of the event stream in order:
\* record k comes from event k, unchanged unless the event is finished, a
\* finished event is delivered as a finished record that lists the nodes of
\* its path in path order, and a stream that has ended holds exactly one
\* terminal record
C37_StreamIsImageOfEvents ==
    /\ Len(ndjson) = Len(events)
    /\ \A k \in 1..Len(ndjson) :
          IF events[k].status = "finished"
          THEN DeliversPath(k, events[k].path)
          ELSE ndjson[k] = events[k]
    /\ TerminalRecords <= 1
    /\ pc = "done" => TerminalRecords = 1

\* the part of C37 that is about the order and about the events other than
\* finished
OtherEventsForwardedInOrder ==
    /\ Len(ndjson) = Len(events)
    /\ \A k \in 1..Len(ndjson) :
          /\ events[k].status # "finished" => ndjson[k] = events[k]
          /\ events[k].status \in TerminalStatuses <=> ndjson[k].status \in TerminalStatuses
    /\ TerminalRecords <= 1

\* no finished event of the search reaches the client as a finished record
FinishedNeverDelivered ==
    \A k \in 1..Len(ndjson) : ndjson[k].status # "finished"

\* task i comes back from a failed request with empty data and its title is
\* in neither cache of the running direction afterwards
FailedFetchStoresNothing(i) ==
    /\ tasks'[i].candidates = <<>>
    /\ tasks[i].node \notin DOMAIN FetchCache(page_cache', backlink_cache')

\* C38: a fetch whose request fails, by an exception or by an answer without
\* the expected data, returns empty data and leaves the title out of the
\* page and backlink caches, so that a later call sends the request again
C38_FailedRequestStoresNothing ==
    [][\A i \in TaskIds :
          (FetchEnds(i, "raise") \/ FetchEnds(i, "malformed")) =>
              FailedFetchStoresNothing(i)]_vars

\* the same for the requests that raise; an answer without the expected data
\* returns empty data as well
RaisedRequestStoresNothing ==
    [][\A i \in TaskIds :
          /\ FetchEnds(i, "raise") => FailedFetchStoresNothing(i)
          /\ FetchEnds(i, "malformed") => tasks'[i].candidates = <<>>]_vars

\* an answer without the expected data is stored as an empty list
AnswerWithoutDataIsStored ==
    [][\A i \in TaskIds :
          FetchEnds(i, "malformed") =>
              /\ tasks[i].node \in DOMAIN FetchCache(page_cache', backlink_cache')
              /\ FetchCache(page_cache', backlink_cache')[tasks[i].node] = <<>>]_vars

\* a finished event has been emitted
FinishedEmitted == \E k \in 1..Len(events) : events[k].status = "finished"

\* C39: as long as no finished event has been emitted in a search between
\* two different pages, no title is a key of both parent maps
C39_ParentMapsDisjointUntilFinished ==
    (start_page # end_page /\ ~FinishedEmitted) =>
        DOMAIN parent_f \cap DOMAIN parent_b = {}

\* both directions have inserted children and the search goes on
C39_Witness ==
    /\ start_page # end_page
    /\ ~FinishedEmitted
    /\ pc = "loop"
    /\ Cardinality(DOMAIN parent_f) > 1
    /\ Cardinality(DOMAIN parent_b) > 1
    /\ DOMAIN parent_f \cap DOMAIN parent_b = {}

\* a finished event is emitted by the merge step that inserts a title the
\* other direction has, and the two maps share that title from then on
FinishedSharesMeeting ==
    (start_page # end_page /\ FinishedEmitted) =>
        DOMAIN parent_f \cap DOMAIN parent_b # {}

\* C40: the two parent maps never hold more than MAX_NODES_VISITED +
\* BATCH_SIZE * MAX_DEGREE titles together
C40_VisitedTotalBounded ==
    Cardinality(DOMAIN parent_f) + Cardinality(DOMAIN parent_b)
        <= MAX_NODES_VISITED + BATCH_SIZE * MAX_DEGREE

\* an iteration that started with MAX_NODES_VISITED titles has inserted
\* MAX_DEGREE children for each of BATCH_SIZE level nodes
C40_Witness ==
    /\ pc = "loop"
    /\ Len(level_nodes) = BATCH_SIZE
    /\ Cardinality(DOMAIN parent_f) + Cardinality(DOMAIN parent_b)
          = MAX_NODES_VISITED + BATCH_SIZE * MAX_DEGREE

=============================================================================
